---- MODULE Spec2Model ----
(***************************************************************************)
(* Medical scheduling agent: the calendar / slot engine                    *)
(* (app/utils/calendar_manager.py) and the rule-based dialogue engine      *)
(* (app/agents/scheduler_agent.py), sharing the appointments.json store.   *)
(***************************************************************************)
EXTENDS Integers, Sequences, FiniteSets, TLC

VARIABLES
    appointments,   \* contents of data/appointments.json (a list of records)
    now,            \* logical wall clock read by datetime.now()
    last,           \* the dict returned by the last Slot Engine call
    threads,        \* callers running book_slot concurrently: position and locals
    patients,       \* contents of data/patients.json (a list of records)
    conversation_state,  \* SchedulerAgent.conversation_state
    reply,          \* the kind of response the last turn returned
    enumeration     \* a get_available_slots call in progress: position and locals

vars == <<appointments, now, last, threads, patients, conversation_state, reply,
          enumeration>>

\* the state of the dialogue engine, which no Slot Engine call touches
dialogueVars == <<patients, conversation_state, reply>>

----------------------------------------------------------------------------
(* Bounds of the model *)

\* number of clock readings (successful mutations) explored
MaxNow == 3

----------------------------------------------------------------------------
(* Dates, times and their conversions *)

\* The calendar window known to strptime("%Y-%m-%d"): two weeks, the first
\* entry is a Monday.
Calendar ==
    << "2026-10-26", "2026-10-27", "2026-10-28", "2026-10-29", "2026-10-30",
       "2026-10-31", "2026-11-01",
       "2026-11-02", "2026-11-03", "2026-11-04", "2026-11-05", "2026-11-06",
       "2026-11-07", "2026-11-08" >>

\* datetime.strptime(date_str, "%Y-%m-%d").date(): the ordinal of the date in
\* the window, 0 when the string does not parse (ValueError).
Strptime(date_str) ==
    IF \E i \in 1..Len(Calendar) : Calendar[i] = date_str
    THEN CHOOSE i \in 1..Len(Calendar) : Calendar[i] = date_str
    ELSE 0

\* date.weekday(): Monday = 0 .. Sunday = 6
Weekday(ordinal) == (ordinal - 1) % 7

\* date.strftime("%A")
DayNames ==
    << "Monday", "Tuesday", "Wednesday", "Thursday", "Friday", "Saturday", "Sunday" >>

DayName(ordinal) == DayNames[Weekday(ordinal) + 1]

\* date.today()
Today == "2026-11-02"

\* f"{current_hour:02d}:00"
HourStr ==
    << "00:00", "01:00", "02:00", "03:00", "04:00", "05:00", "06:00", "07:00",
       "08:00", "09:00", "10:00", "11:00", "12:00", "13:00", "14:00", "15:00",
       "16:00", "17:00", "18:00", "19:00", "20:00", "21:00", "22:00", "23:00" >>

FormatHour(h) == HourStr[h + 1]

\* the inverse reading of a slot string: its hour, -1 when it is no "HH:00"
HourOf(time_str) ==
    IF \E h \in 0..23 : HourStr[h + 1] = time_str
    THEN CHOOSE h \in 0..23 : HourStr[h + 1] = time_str
    ELSE -1

Max(a, b) == IF a >= b THEN a ELSE b

----------------------------------------------------------------------------
(* CalendarManager.__init__ *)

BusinessStart == 9
BusinessEnd == 17
LunchStart == 12
LunchEnd == 13
WorkingDays == {0, 1, 2, 3, 4}

\* the default of appointment.get('duration_minutes', 30)
DefaultDuration == 30

----------------------------------------------------------------------------
(* The record store *)

\* a working day of a doctor's weekly schedule: (day name, start_time, end_time)
WorkDay(day, start_time, end_time) ==
    [day |-> day, start_time |-> start_time, end_time |-> end_time]

\* data/doctors.json: read-only for both engines.  The weekly schedule of a
\* doctor lists the days the doctor works; the second doctor does not work on
\* Tuesdays.
Doctors ==
    << [doctor_id |-> "DOC001", first_name |-> "Alexander", last_name |-> "Adams",
        specialty |-> "Cardiology",
        schedule |-> << WorkDay("Monday", "09:00", "17:00"),
                        WorkDay("Tuesday", "09:00", "17:00"),
                        WorkDay("Wednesday", "09:00", "17:00"),
                        WorkDay("Thursday", "09:00", "17:00"),
                        WorkDay("Friday", "09:00", "17:00") >>],
       [doctor_id |-> "DOC002", first_name |-> "Diana", last_name |-> "Baker",
        specialty |-> "Dermatology",
        schedule |-> << WorkDay("Monday", "08:00", "16:00"),
                        WorkDay("Wednesday", "08:00", "16:00"),
                        WorkDay("Thursday", "10:00", "18:00"),
                        WorkDay("Friday", "10:00", "18:00") >>] >>

\* f"APT{n:04d}"
AptIdStr ==
    << "APT0001", "APT0002", "APT0003", "APT0004", "APT0005", "APT0006",
       "APT0007", "APT0008", "APT0009" >>

\* an id that does not depend on the number of appointments stored
FormatAptId_Fixed(n) == AptIdStr[1]

FormatAptId(n) == AptIdStr[n]

\* a key that a dict does not hold
Absent == "<absent>"

\* the value standing for "no appointment in the result"
NoAppointment ==
    [appointment_id |-> Absent, patient_id |-> Absent, patient_name |-> Absent,
     doctor_id |-> Absent, date |-> Absent, time |-> Absent,
     duration_minutes |-> 0, status |-> Absent, created_at |-> 0,
     rescheduled_at |-> 0, cancelled_at |-> 0, cancellation_reason |-> Absent]

\* appointment.get('duration_minutes', 30); 0 stands for a missing key
GetDuration(apt) ==
    IF apt.duration_minutes = 0 THEN DefaultDuration ELSE apt.duration_minutes

\* index of the first appointment with the id, 0 when there is none
FindAppointment(appts, appointment_id) ==
    IF \E i \in 1..Len(appts) : appts[i].appointment_id = appointment_id
    THEN CHOOSE i \in 1..Len(appts) :
            /\ appts[i].appointment_id = appointment_id
            /\ \A j \in 1..(i - 1) : appts[j].appointment_id # appointment_id
    ELSE 0

----------------------------------------------------------------------------
(* CalendarManager.get_available_slots *)

\* is_booked with the doctor filter reading a key the records do not hold
\* (apt.get('doctor') is None for every record, so nothing counts as booked)
IsBooked_WrongKey(appts, doctor_id, date_str, time_slot) ==
    \E i \in 1..Len(appts) :
        /\ Absent = doctor_id
        /\ appts[i].date = date_str
        /\ appts[i].time = time_slot

\* is_booked without the comparison of the time: one appointment of the doctor
\* and date takes every slot of the day
IsBooked_WholeDay(appts, doctor_id, date_str, time_slot) ==
    \E i \in 1..Len(appts) :
        /\ appts[i].doctor_id = doctor_id
        /\ appts[i].date = date_str

\* is_booked: any appointment of the doctor and date with this time string
IsBooked(appts, doctor_id, date_str, time_slot) ==
    \E i \in 1..Len(appts) :
        /\ appts[i].doctor_id = doctor_id
        /\ appts[i].date = date_str
        /\ appts[i].time = time_slot

\* the while loop over current_hour
RECURSIVE SlotLoop(_, _, _, _, _)
SlotLoop(appts, doctor_id, date_str, duration_minutes, current_hour) ==
    IF current_hour >= BusinessEnd THEN << >>
    ELSE IF LunchStart <= current_hour /\ current_hour < LunchEnd
    THEN SlotLoop(appts, doctor_id, date_str, duration_minutes, current_hour + 1)
    ELSE (IF IsBooked(appts, doctor_id, date_str, FormatHour(current_hour))
          THEN << >>
          ELSE << FormatHour(current_hour) >>)
         \o SlotLoop(appts, doctor_id, date_str, duration_minutes,
                     current_hour + Max(1, duration_minutes \div 60))

\* get_available_slots without the future-date test of lines 47-49
GetAvailableSlots_NoFutureCheck(appts, doctor_id, date_str, duration_minutes) ==
    LET target_date == Strptime(date_str) IN
    IF target_date = 0 THEN << >>
    ELSE IF Weekday(target_date) \notin WorkingDays THEN << >>
    ELSE SlotLoop(appts, doctor_id, date_str, duration_minutes, BusinessStart)

GetAvailableSlots(appts, doctor_id, date_str, duration_minutes) ==
    LET target_date == Strptime(date_str) IN
    IF target_date = 0 THEN << >>                       \* except Exception
    ELSE IF Weekday(target_date) \notin WorkingDays THEN << >>
    ELSE IF target_date <= Strptime(Today) THEN << >>
    ELSE SlotLoop(appts, doctor_id, date_str, duration_minutes, BusinessStart)

InSeq(x, s) == \E i \in 1..Len(s) : s[i] = x

----------------------------------------------------------------------------
(* CalendarManager.book_slot *)

\* the doctor lookup comparing a key the doctor records do not hold
DoctorKnown_WrongKey(doctor_id) == \E i \in 1..Len(Doctors) : Absent = doctor_id

DoctorKnown(doctor_id) == \E i \in 1..Len(Doctors) : Doctors[i].doctor_id = doctor_id

Result(op, success, message, appointment_id, date_str, time_str, apt, appts) ==
    [op |-> op, success |-> success, message |-> message,
     appointment_id |-> appointment_id, date |-> date_str, time |-> time_str,
     appointment |-> apt, appointments |-> appts]

\* book_slot without the availability validation of lines 93-99
BookSlot_NoValidation(appts, clock, doctor_id, date_str, time_str, patient_data, duration_minutes) ==
    IF ~DoctorKnown(doctor_id)
    THEN Result("book", FALSE, "doctor_not_found", Absent, date_str, time_str,
                NoAppointment, appts)
    ELSE LET appointment ==
                [appointment_id |-> FormatAptId(Len(appts) + 1),
                 patient_id |-> patient_data.patient_id,
                 patient_name |-> patient_data.name,
                 doctor_id |-> doctor_id,
                 date |-> date_str,
                 time |-> time_str,
                 duration_minutes |-> duration_minutes,
                 status |-> "scheduled",
                 created_at |-> clock,
                 rescheduled_at |-> 0,
                 cancelled_at |-> 0,
                 cancellation_reason |-> Absent]
         IN Result("book", TRUE, "booked", appointment.appointment_id, date_str,
                   time_str, appointment, Append(appts, appointment))

\* the returned dict, together with the store the call leaves ("appointments")
BookSlot(appts, clock, doctor_id, date_str, time_str, patient_data, duration_minutes) ==
    IF ~InSeq(time_str, GetAvailableSlots(appts, doctor_id, date_str, duration_minutes))
    THEN Result("book", FALSE, "not_available", Absent, date_str, time_str,
                NoAppointment, appts)
    ELSE IF ~DoctorKnown(doctor_id)
    THEN Result("book", FALSE, "doctor_not_found", Absent, date_str, time_str,
                NoAppointment, appts)
    ELSE LET appointment ==
                [appointment_id |-> FormatAptId(Len(appts) + 1),
                 patient_id |-> patient_data.patient_id,
                 patient_name |-> patient_data.name,
                 doctor_id |-> doctor_id,
                 date |-> date_str,
                 time |-> time_str,
                 duration_minutes |-> duration_minutes,
                 status |-> "scheduled",
                 created_at |-> clock,
                 rescheduled_at |-> 0,
                 cancelled_at |-> 0,
                 cancellation_reason |-> Absent]
         IN Result("book", TRUE, "booked", appointment.appointment_id, date_str,
                   time_str, appointment, Append(appts, appointment))

----------------------------------------------------------------------------
(* CalendarManager.reschedule_appointment *)

\* reschedule_appointment updating and saving the record before it asks for
\* the availability of the new slot
RescheduleAppointment_SaveFirst(appts, clock, appointment_id, new_date, new_time) ==
    LET appointment_index == FindAppointment(appts, appointment_id) IN
    IF appointment_index = 0
    THEN Result("reschedule", FALSE, "not_found", appointment_id, new_date, new_time,
                NoAppointment, appts)
    ELSE LET appointment == appts[appointment_index]
             moved == [appointment EXCEPT !.date = new_date,
                                          !.time = new_time,
                                          !.rescheduled_at = clock,
                                          !.status = "rescheduled"]
         IN IF ~InSeq(new_time, GetAvailableSlots(appts, appointment.doctor_id, new_date,
                                                  GetDuration(appointment)))
            THEN Result("reschedule", FALSE, "not_available", appointment_id, new_date,
                        new_time, NoAppointment,
                        [appts EXCEPT ![appointment_index] = moved])
            ELSE Result("reschedule", TRUE, "rescheduled", appointment_id, new_date,
                        new_time, moved, [appts EXCEPT ![appointment_index] = moved])

\* reschedule_appointment writing a rebuilt record in place of the updated one:
\* the patient and the duration of the appointment are not carried over
RescheduleAppointment_Rebuilt(appts, clock, appointment_id, new_date, new_time) ==
    LET appointment_index == FindAppointment(appts, appointment_id) IN
    IF appointment_index = 0
    THEN Result("reschedule", FALSE, "not_found", appointment_id, new_date, new_time,
                NoAppointment, appts)
    ELSE LET appointment == appts[appointment_index] IN
         IF ~InSeq(new_time, GetAvailableSlots(appts, appointment.doctor_id, new_date,
                                               GetDuration(appointment)))
         THEN Result("reschedule", FALSE, "not_available", appointment_id, new_date,
                     new_time, NoAppointment, appts)
         ELSE LET moved == [NoAppointment EXCEPT
                                !.appointment_id = appointment_id,
                                !.doctor_id = appointment.doctor_id,
                                !.date = new_date,
                                !.time = new_time,
                                !.rescheduled_at = clock,
                                !.status = "rescheduled"]
              IN Result("reschedule", TRUE, "rescheduled", appointment_id, new_date,
                        new_time, moved, [appts EXCEPT ![appointment_index] = moved])

\* reschedule_appointment moving the appointment without asking for the
\* available slots
RescheduleAppointment_Unchecked(appts, clock, appointment_id, new_date, new_time) ==
    LET appointment_index == FindAppointment(appts, appointment_id) IN
    IF appointment_index = 0
    THEN Result("reschedule", FALSE, "not_found", appointment_id, new_date, new_time,
                NoAppointment, appts)
    ELSE LET moved == [appts[appointment_index] EXCEPT !.date = new_date,
                                                       !.time = new_time,
                                                       !.rescheduled_at = clock,
                                                       !.status = "rescheduled"]
         IN Result("reschedule", TRUE, "rescheduled", appointment_id, new_date,
                   new_time, moved, [appts EXCEPT ![appointment_index] = moved])

\* reschedule_appointment adding the moved appointment and leaving the old
\* record where it was
RescheduleAppointment_Copies(appts, clock, appointment_id, new_date, new_time) ==
    LET appointment_index == FindAppointment(appts, appointment_id) IN
    IF appointment_index = 0
    THEN Result("reschedule", FALSE, "not_found", appointment_id, new_date, new_time,
                NoAppointment, appts)
    ELSE LET appointment == appts[appointment_index] IN
         IF ~InSeq(new_time, GetAvailableSlots(appts, appointment.doctor_id, new_date,
                                               GetDuration(appointment)))
         THEN Result("reschedule", FALSE, "not_available", appointment_id, new_date,
                     new_time, NoAppointment, appts)
         ELSE LET moved == [appointment EXCEPT !.date = new_date,
                                               !.time = new_time,
                                               !.rescheduled_at = clock,
                                               !.status = "rescheduled"]
              IN Result("reschedule", TRUE, "rescheduled", appointment_id, new_date,
                        new_time, moved, Append(appts, moved))

RescheduleAppointment(appts, clock, appointment_id, new_date, new_time) ==
    LET appointment_index == FindAppointment(appts, appointment_id) IN
    IF appointment_index = 0
    THEN Result("reschedule", FALSE, "not_found", appointment_id, new_date, new_time,
                NoAppointment, appts)
    ELSE LET appointment == appts[appointment_index] IN
         IF ~InSeq(new_time, GetAvailableSlots(appts, appointment.doctor_id, new_date,
                                               GetDuration(appointment)))
         THEN Result("reschedule", FALSE, "not_available", appointment_id, new_date,
                     new_time, NoAppointment, appts)
         ELSE LET moved == [appointment EXCEPT !.date = new_date,
                                               !.time = new_time,
                                               !.rescheduled_at = clock,
                                               !.status = "rescheduled"]
              IN Result("reschedule", TRUE, "rescheduled", appointment_id, new_date,
                        new_time, moved, [appts EXCEPT ![appointment_index] = moved])

----------------------------------------------------------------------------
(* CalendarManager.cancel_appointment *)

CancelAppointment(appts, clock, appointment_id, reason) ==
    LET appointment_index == FindAppointment(appts, appointment_id) IN
    IF appointment_index = 0
    THEN Result("cancel", FALSE, "not_found", appointment_id, Absent, Absent,
                NoAppointment, appts)
    ELSE LET cancelled == [appts[appointment_index] EXCEPT
                                !.status = "cancelled",
                                !.cancelled_at = clock,
                                !.cancellation_reason = reason]
         IN Result("cancel", TRUE, "cancelled", appointment_id, Absent, Absent,
                   cancelled, [appts EXCEPT ![appointment_index] = cancelled])

----------------------------------------------------------------------------
(* Python string operations, computed on the characters of the string *)

\* what a user may type in one turn
Utterances ==
    { "hello", "Jane Doe", "my name is Jane Doe", "John Roe", "cardiologist",
      "skin doctor", "tomorrow morning", "next friday afternoon", "Aetna",
      "jane@example.com", "john@example.com", "no thanks", "yes",
      "cancel my appointment Jane Doe", "reschedule my appointment Jane Doe",
      "I want to book an appointment", "1", "2", "3", "", "change my appointment",
      "check my appointments Jane Doe", "cancel" }

UpperCase == "ABCDEFGHIJKLMNOPQRSTUVWXYZ"
LowerCase == "abcdefghijklmnopqrstuvwxyz"
Digits == "0123456789"
Whitespace == {" ", "\t", "\n", "\r"}

\* s[i - 1] of Python, as a string of one character
CharAt(s, i) == SubSeq(s, i, i)

\* the position of a character in an alphabet, 0 when it is not in it
PositionIn(alphabet, c) ==
    IF \E k \in 1..Len(alphabet) : CharAt(alphabet, k) = c
    THEN CHOOSE k \in 1..Len(alphabet) : CharAt(alphabet, k) = c
    ELSE 0

\* the letters that lower() changes (the inputs are ASCII)
UpperLetters ==
    {"A", "B", "C", "D", "E", "F", "G", "H", "I", "J", "K", "L", "M", "N", "O", "P", "Q",
     "R", "S", "T", "U", "V", "W", "X", "Y", "Z"}

LowerChar(c) ==
    IF c \in UpperLetters THEN CharAt(LowerCase, PositionIn(UpperCase, c)) ELSE c

RECURSIVE LowerFrom(_, _)
LowerFrom(s, i) ==
    IF i > Len(s) THEN "" ELSE LowerChar(CharAt(s, i)) \o LowerFrom(s, i + 1)

\* s.strip()
Strip(s) ==
    LET inked == {i \in 1..Len(s) : CharAt(s, i) \notin Whitespace}
    IN IF inked = {} THEN ""
       ELSE SubSeq(s, CHOOSE i \in inked : \A j \in inked : i <= j,
                      CHOOSE i \in inked : \A j \in inked : j <= i)

\* s[i - 1:].startswith(needle)
MatchesAt(s, i, needle) ==
    /\ i + Len(needle) - 1 <= Len(s)
    /\ SubSeq(s, i, i + Len(needle) - 1) = needle

RECURSIVE SplitFrom(_, _, _)
SplitFrom(s, i, current) ==
    IF i > Len(s) THEN (IF current = "" THEN << >> ELSE <<current>>)
    ELSE IF CharAt(s, i) \in Whitespace
    THEN (IF current = "" THEN << >> ELSE <<current>>) \o SplitFrom(s, i + 1, "")
    ELSE SplitFrom(s, i + 1, current \o CharAt(s, i))

\* s.lower()
Lower(s) == LowerFrom(s, 1)

\* needle in s
Contains(needle, s) == \E i \in 1..(Len(s) - Len(needle) + 1) : MatchesAt(s, i, needle)

\* any(word in s for word in words)
AnyIn(words, s) == \E word \in words : Contains(word, s)

\* s.startswith(prefix)
StartsWith(s, prefix) == MatchesAt(s, 1, prefix)

\* s[n:]
Slice(s, n) == SubSeq(s, n + 1, Len(s))

\* s.index(marker), for a marker that s contains
Index(s, marker) ==
    (CHOOSE i \in 1..(Len(s) + 1) :
        /\ MatchesAt(s, i, marker)
        /\ \A j \in 1..(i - 1) : ~MatchesAt(s, j, marker)) - 1

RECURSIVE ReplaceFrom(_, _, _)
ReplaceFrom(s, word, i) ==
    IF i > Len(s) THEN ""
    ELSE IF MatchesAt(s, i, word) THEN ReplaceFrom(s, word, i + Len(word))
    ELSE CharAt(s, i) \o ReplaceFrom(s, word, i + 1)

\* s.replace(word, ""), for a non-empty word
Replace(s, word) == ReplaceFrom(s, word, 1)

\* s.split()
Split(s) == SplitFrom(s, 1, "")

RECURSIVE Join(_)
\* " ".join(parts)
Join(parts) ==
    IF Len(parts) = 0 THEN ""
    ELSE IF Len(parts) = 1 THEN parts[1]
    ELSE parts[1] \o " " \o Join(Tail(parts))

\* f"{first_name} {last_name}"
FormatName(first_name, last_name) == first_name \o " " \o last_name

\* whether int(s) succeeds: an optional sign and decimal digits (s is stripped)
IsInt(s) ==
    LET body == IF StartsWith(s, "-") \/ StartsWith(s, "+") THEN Slice(s, 1) ELSE s
    IN /\ Len(body) > 0
       /\ \A i \in 1..Len(body) : PositionIn(Digits, CharAt(body, i)) # 0

RECURSIVE DigitsValue(_, _)
DigitsValue(body, n) ==
    IF n = 0 THEN 0
    ELSE DigitsValue(body, n - 1) * 10 + (PositionIn(Digits, CharAt(body, n)) - 1)

\* int(s), for a string for which it succeeds
ParseInt(s) ==
    IF StartsWith(s, "-") THEN 0 - DigitsValue(Slice(s, 1), Len(s) - 1)
    ELSE IF StartsWith(s, "+") THEN DigitsValue(Slice(s, 1), Len(s) - 1)
    ELSE DigitsValue(s, Len(s))

\* f"P{n:04d}"
PatientIdStr ==
    << "P0001", "P0002", "P0003", "P0004", "P0005", "P0006", "P0007", "P0008",
       "P0009" >>

FormatPatientId(n) == PatientIdStr[n]

\* dict.get(key, default) for a key that may be missing
GetOr(value, default) == IF value = Absent THEN default ELSE value

----------------------------------------------------------------------------
(* SchedulerAgent: the conversation state and the analysis of an input *)

\* self.conversation_state = {}: every key missing
EmptyState ==
    [conversation_step |-> Absent, patient_name |-> Absent, specialty |-> Absent,
     date_preference |-> Absent, time_preference |-> Absent,
     insurance_provider |-> Absent, patient_email |-> Absent,
     modification_action |-> Absent, appointments_to_modify |-> << >>,
     appointment_to_reschedule |-> NoAppointment]

\* the specialties searched for in an input, in the order of the loop
Specialties ==
    << "cardiologist", "dermatologist", "neurologist", "orthopedist",
       "pediatrician", "psychiatrist", "general", "family" >>

\* the loop overwrites the entity on every hit: the last specialty found wins
SpecialtyEntity(input_lower) ==
    LET hits == {i \in 1..Len(Specialties) : Contains(Specialties[i], input_lower)}
    IN IF hits = {} THEN Absent
       ELSE Specialties[CHOOSE i \in hits : \A j \in hits : j <= i]

\* the intent of a non-empty input: the first keyword group that matches
DetectIntent(input_lower) ==
    IF AnyIn({"cancel", "reschedule", "change", "modify", "move"}, input_lower)
    THEN "modify_appointment"
    ELSE IF AnyIn({"schedule", "book", "see doctor", "new appointment"}, input_lower)
    THEN "schedule_appointment"
    ELSE IF /\ Contains("appointment", input_lower)
            /\ AnyIn({"need", "want", "like"}, input_lower)
    THEN "schedule_appointment"
    ELSE IF AnyIn({"hello", "hi", "help", "start"}, input_lower)
    THEN "greeting"
    ELSE IF AnyIn({"yes", "yeah", "ok", "okay"}, input_lower)
    THEN "confirmation"
    ELSE IF AnyIn({"no", "nope", "nothing"}, input_lower)
    THEN "negative"
    ELSE "general"

\* analyze_user_input: the intent and the specialty entity (the date and time
\* entities it also extracts are read by no caller)
AnalyzeUserInput(user_input) ==
    LET input_lower == Strip(Lower(user_input))
    IN IF input_lower = ""
       THEN [intent |-> "empty", specialty |-> Absent]
       ELSE [intent |-> DetectIntent(input_lower),
             specialty |-> SpecialtyEntity(input_lower)]

----------------------------------------------------------------------------
(* SchedulerAgent: patients, doctors and the booking of the dialogue *)

\* _find_or_create_patient looking for nobody: a new patient on every call
FindOrCreatePatient_AlwaysCreates(pats, cs) ==
    LET name_parts == Split(Strip(GetOr(cs.patient_name, "")))
        new_patient ==
            [patient_id |-> FormatPatientId(Len(pats) + 1),
             first_name |-> IF Len(name_parts) > 0 THEN name_parts[1] ELSE "Unknown",
             last_name |-> IF Len(name_parts) > 1 THEN Join(Tail(name_parts))
                           ELSE "Patient",
             email |-> GetOr(cs.patient_email, ""),
             insurance_provider |-> GetOr(cs.insurance_provider, ""),
             is_new_patient |-> TRUE]
    IN [patient |-> new_patient, patients |-> Append(pats, new_patient)]

\* _find_or_create_patient: the patient and the patients.json it leaves
FindOrCreatePatient(pats, cs) ==
    LET patient_name == GetOr(cs.patient_name, "")
        patient_email == GetOr(cs.patient_email, "")
        name_parts == Split(Strip(patient_name))
        first_name == IF Len(name_parts) > 0 THEN name_parts[1] ELSE "Unknown"
        last_name == IF Len(name_parts) > 1 THEN Join(Tail(name_parts)) ELSE "Patient"
        Matches(patient) ==
            \/ /\ Lower(patient.first_name) = Lower(first_name)
               /\ Lower(patient.last_name) = Lower(last_name)
            \/ Lower(patient.email) = Lower(patient_email)
        found == {i \in 1..Len(pats) : Matches(pats[i])}
    IN IF found # {}
       THEN LET i == CHOOSE k \in found : \A j \in found : k <= j
                patient == IF patient_email # "" /\ pats[i].email # patient_email
                           THEN [pats[i] EXCEPT !.email = patient_email]
                           ELSE pats[i]
            IN [patient |-> patient, patients |-> [pats EXCEPT ![i] = patient]]
       ELSE LET new_patient ==
                    [patient_id |-> FormatPatientId(Len(pats) + 1),
                     first_name |-> first_name,
                     last_name |-> last_name,
                     email |-> patient_email,
                     insurance_provider |-> GetOr(cs.insurance_provider, ""),
                     is_new_patient |-> TRUE]
            IN [patient |-> new_patient, patients |-> Append(pats, new_patient)]

\* the terms that name a specialty, in the order of the dict
SpecialtyMapping ==
    << <<"cardiologist", "cardiology">>, <<"heart doctor", "cardiology">>,
       <<"heart", "cardiology">>, <<"dermatologist", "dermatology">>,
       <<"skin doctor", "dermatology">>, <<"skin", "dermatology">>,
       <<"general practitioner", "general practice">>, <<"gp", "general practice">>,
       <<"family doctor", "family medicine">>,
       <<"anesthesiologist", "anesthesiology">> >>

\* the first element of a non-empty set of indices
First(indices) == CHOOSE i \in indices : \A j \in indices : i <= j

\* the value standing for None where a doctor is expected
NoDoctor ==
    [doctor_id |-> Absent, first_name |-> Absent, last_name |-> Absent,
     specialty |-> Absent, schedule |-> << >>]

\* _find_available_doctor: the doctor the booking resolves to
FindAvailableDoctor(cs) ==
    LET specialty_mentioned == Lower(GetOr(cs.specialty, ""))
        terms == {i \in 1..Len(SpecialtyMapping) :
                     Contains(SpecialtyMapping[i][1], specialty_mentioned)}
        target_specialty == IF terms = {} THEN specialty_mentioned
                            ELSE SpecialtyMapping[First(terms)][2]
        bySpecialty == {i \in 1..Len(Doctors) :
                           LET doctor_specialty == Lower(Doctors[i].specialty)
                           IN \/ Contains(target_specialty, doctor_specialty)
                              \/ Contains(doctor_specialty, target_specialty)}
        byCardio == {i \in 1..Len(Doctors) : Contains("cardio", Lower(Doctors[i].specialty))}
    IN IF target_specialty # "" /\ bySpecialty # {}
       THEN Doctors[First(bySpecialty)]
       ELSE IF Contains("cardio", specialty_mentioned) /\ byCardio # {}
       THEN Doctors[First(byCardio)]
       ELSE IF Len(Doctors) > 0 THEN Doctors[1] ELSE NoDoctor

\* f"{n:02d}"
TwoDigits(n) == CharAt(Digits, (n \div 10) + 1) \o CharAt(Digits, (n % 10) + 1)

\* strftime("%H:%M") of a time of day held as minutes since midnight
FormatTime(minutes) == TwoDigits(minutes \div 60) \o ":" \o TwoDigits(minutes % 60)

\* datetime.strptime(s, "%H:%M") of a schedule entry, as minutes since midnight
ParseTime(s) == DigitsValue(SubSeq(s, 1, 2), 2) * 60 + DigitsValue(SubSeq(s, 4, 5), 2)

RECURSIVE AgentSlotLoop(_, _, _)
\* the while loop of SchedulerAgent.get_available_slots
AgentSlotLoop(current_time, end_time, duration) ==
    IF current_time + duration > end_time THEN << >>
    ELSE (IF current_time \div 60 # 12 THEN << FormatTime(current_time) >> ELSE << >>)
         \o AgentSlotLoop(current_time + duration, end_time, duration)

\* SchedulerAgent.get_available_slots: the slots of the doctor's own weekly
\* schedule; the appointments are not looked at
AgentGetAvailableSlots(doctor_id, date, duration) ==
    LET known == {i \in 1..Len(Doctors) : Doctors[i].doctor_id = doctor_id}
        date_obj == Strptime(date)
    IN IF known = {} THEN << >>
       ELSE IF date_obj = 0 THEN << >>                  \* except ValueError
       ELSE LET doctor == Doctors[First(known)]
                days == {k \in 1..Len(doctor.schedule) :
                            doctor.schedule[k].day = DayName(date_obj)}
            IN IF days = {} THEN << >>
               ELSE LET schedule == doctor.schedule[First(days)]
                    IN AgentSlotLoop(ParseTime(schedule.start_time),
                                     ParseTime(schedule.end_time), duration)

\* book_appointment leaving appointments.json as it was
BookAppointment_NotSaved(appts, clock, patient_data, doctor_id, date, time) ==
    [appointment |-> NoAppointment, appointments |-> appts]

\* book_appointment: the appointment and the appointments.json it leaves.
\* Nothing is checked: the appointment is appended and saved.
BookAppointment(appts, clock, patient_data, doctor_id, date, time) ==
    LET appointment ==
            [appointment_id |-> FormatAptId(Len(appts) + 1),
             patient_id |-> patient_data.patient_id,
             patient_name |-> FormatName(patient_data.first_name, patient_data.last_name),
             doctor_id |-> doctor_id,
             date |-> date,
             time |-> time,
             duration_minutes |-> 0,
             status |-> "scheduled",
             created_at |-> clock,
             rescheduled_at |-> 0,
             cancelled_at |-> 0,
             cancellation_reason |-> Absent]
    IN [appointment |-> appointment, appointments |-> Append(appts, appointment)]

----------------------------------------------------------------------------
(* SchedulerAgent: one turn of the rule-based dialogue *)

\* what a turn leaves behind: the conversation state, the two stores, the kind
\* of reply, and whether datetime.now() was read
Out(cs, appts, pats, response, ticked) ==
    [conversation_state |-> cs, appointments |-> appts, patients |-> pats,
     reply |-> response, ticked |-> ticked]

\* _cancel_appointment cancelling every appointment of the patient's name
AgentCancelAppointment_Namesakes(cs, appts, pats, clock, appointment) ==
    Out(EmptyState,
        [i \in 1..Len(appts) |->
            IF appts[i].patient_name = appointment.patient_name
            THEN [appts[i] EXCEPT !.status = "cancelled", !.cancelled_at = clock]
            ELSE appts[i]],
        pats, "cancelled", TRUE)

\* _cancel_appointment
AgentCancelAppointment(cs, appts, pats, clock, appointment) ==
    LET i == FindAppointment(appts, appointment.appointment_id)
    IN IF i # 0
       THEN Out(EmptyState,
                [appts EXCEPT ![i].status = "cancelled", ![i].cancelled_at = clock],
                pats, "cancelled", TRUE)
       ELSE Out(cs, appts, pats, "cancel_not_found", FALSE)

\* the words removed from an input that carries no name marker
ActionWords == << "cancel", "reschedule", "check", "appointment", "my", "existing" >>

RECURSIVE RemoveWords(_, _)
\* for word in [...]: clean_input = clean_input.replace(word, "").strip()
RemoveWords(clean_input, k) ==
    IF k > Len(ActionWords) THEN clean_input
    ELSE RemoveWords(Strip(Replace(clean_input, ActionWords[k])), k + 1)

\* the name parts _handle_appointment_lookup extracts from the input
LookupNameParts(user_input) ==
    LET user_lower == Lower(user_input)
    IN IF Contains("my name is ", user_lower)
       THEN Split(Strip(Slice(user_input, Index(user_lower, "my name is ") + 11)))
       ELSE IF Contains("i'm ", user_lower)
       THEN Split(Strip(Slice(user_input, Index(user_lower, "i'm ") + 4)))
       ELSE IF Contains("i am ", user_lower)
       THEN Split(Strip(Slice(user_input, Index(user_lower, "i am ") + 5)))
       ELSE Split(RemoveWords(user_input, 1))

\* _handle_appointment_lookup acting on the first match when there are several
HandleAppointmentLookup_ActsOnFirst(cs, appts, pats, clock, user_input, action) ==
    LET name_parts == LookupNameParts(user_input)
        NameMatches(appointment) ==
            \E k \in 1..Len(name_parts) :
                Contains(Lower(name_parts[k]), Lower(appointment.patient_name))
        patient_appointments == SelectSeq(appts, NameMatches)
    IN IF Len(name_parts) = 0
       THEN Out(cs, appts, pats, "provide_name", FALSE)
       ELSE IF Len(patient_appointments) = 0
       THEN Out(cs, appts, pats, "no_appointments_found", FALSE)
       ELSE IF action = "check"
       THEN Out(EmptyState, appts, pats, "appointment_list", FALSE)
       ELSE IF action = "cancel"
       THEN AgentCancelAppointment(cs, appts, pats, clock, patient_appointments[1])
       ELSE Out([cs EXCEPT !.appointment_to_reschedule = patient_appointments[1],
                           !.conversation_step = "reschedule_datetime"],
                appts, pats, "ask_new_datetime", FALSE)

\* _handle_appointment_lookup
HandleAppointmentLookup(cs, appts, pats, clock, user_input, action) ==
    LET name_parts == LookupNameParts(user_input)
        NameMatches(appointment) ==
            \E k \in 1..Len(name_parts) :
                Contains(Lower(name_parts[k]), Lower(appointment.patient_name))
        patient_appointments == SelectSeq(appts, NameMatches)
    IN IF Len(name_parts) = 0
       THEN Out(cs, appts, pats, "provide_name", FALSE)
       ELSE IF Len(patient_appointments) = 0
       THEN Out(cs, appts, pats, "no_appointments_found", FALSE)
       ELSE IF action = "check"
       THEN Out(EmptyState, appts, pats, "appointment_list", FALSE)
       ELSE IF action = "cancel"
       THEN IF Len(patient_appointments) = 1
            THEN AgentCancelAppointment(cs, appts, pats, clock, patient_appointments[1])
            ELSE Out([cs EXCEPT !.appointments_to_modify = patient_appointments,
                                !.conversation_step = "select_appointment_cancel"],
                     appts, pats, "choose_cancel", FALSE)
       ELSE IF Len(patient_appointments) = 1
            THEN Out([cs EXCEPT !.appointment_to_reschedule = patient_appointments[1],
                                !.conversation_step = "reschedule_datetime"],
                     appts, pats, "ask_new_datetime", FALSE)
            ELSE Out([cs EXCEPT !.appointments_to_modify = patient_appointments,
                                !.conversation_step = "select_appointment_reschedule"],
                     appts, pats, "choose_reschedule", FALSE)

\* the date of an input left unread
DatePreference_Unread(user_input) == Absent

\* the date read from an input (the same chain in datetime_preference and in
\* reschedule_datetime)
DatePreference(user_input) ==
    LET date_time_input == Strip(Lower(user_input))
    IN IF Contains("tomorrow", date_time_input) THEN "tomorrow"
       ELSE IF Contains("today", date_time_input) THEN "today"
       ELSE IF Contains("next week", date_time_input) THEN "next week"
       ELSE IF Contains("monday", date_time_input) THEN "next Monday"
       ELSE IF Contains("tuesday", date_time_input) THEN "next Tuesday"
       ELSE IF Contains("wednesday", date_time_input) THEN "next Wednesday"
       ELSE IF Contains("thursday", date_time_input) THEN "next Thursday"
       ELSE IF Contains("friday", date_time_input) THEN "next Friday"
       ELSE Strip(user_input)

\* the time read from an input; "10:00 AM" when it names none
TimePreference(user_input) ==
    LET date_time_input == Strip(Lower(user_input))
    IN IF Contains("morning", date_time_input) THEN "9:00 AM"
       ELSE IF Contains("afternoon", date_time_input) THEN "2:00 PM"
       ELSE IF Contains("evening", date_time_input) THEN "5:00 PM"
       ELSE IF Contains("noon", date_time_input) THEN "12:00 PM"
       ELSE "10:00 AM"

\* the name_requested step keeping the input as it is typed
NameOf_Verbatim(user_input) == Strip(user_input)

\* the name_requested step: the input, without a filler prefix, is the name
NameOf(user_input) ==
    LET name_input == Strip(user_input)
    IN IF StartsWith(Lower(name_input), "my name is ") THEN Strip(Slice(name_input, 11))
       ELSE IF StartsWith(Lower(name_input), "i'm ") THEN Strip(Slice(name_input, 4))
       ELSE IF StartsWith(Lower(name_input), "i am ") THEN Strip(Slice(name_input, 5))
       ELSE Strip(name_input)

\* the email_collection step: store the email and book.  No availability is
\* asked for: the patient is found or created, the doctor resolved, and
\* book_appointment appends the appointment.
EmailCollection(cs, appts, pats, clock, user_input) ==
    LET withEmail == [cs EXCEPT !.patient_email = Strip(user_input)]
        found == FindOrCreatePatient(pats, withEmail)
        doctor == FindAvailableDoctor(withEmail)
        booked == BookAppointment(appts, clock, found.patient, doctor.doctor_id,
                                  GetOr(withEmail.date_preference, "tomorrow"),
                                  GetOr(withEmail.time_preference, "10:00 AM"))
    IN IF doctor # NoDoctor
       THEN Out([withEmail EXCEPT !.conversation_step = "confirmation"],
                booked.appointments, found.patients, "booked", TRUE)
       ELSE Out([withEmail EXCEPT !.conversation_step = "confirmation"],
                appts, found.patients, "no_doctor", FALSE)

\* the select_appointment_cancel step taking a number beyond the list for the
\* last candidate
SelectAppointmentCancel_Clamps(cs, appts, pats, clock, user_input) ==
    IF ~IsInt(Strip(user_input))
    THEN Out(cs, appts, pats, "enter_number_cancel", FALSE)
    ELSE LET selection == ParseInt(Strip(user_input)) - 1
             appointments_list == cs.appointments_to_modify
         IN IF 0 <= selection /\ Len(appointments_list) > 0
            THEN AgentCancelAppointment(
                     cs, appts, pats, clock,
                     appointments_list[IF selection < Len(appointments_list)
                                       THEN selection + 1
                                       ELSE Len(appointments_list)])
            ELSE Out(cs, appts, pats, "invalid_number", FALSE)

\* the select_appointment_cancel step
SelectAppointmentCancel(cs, appts, pats, clock, user_input) ==
    IF ~IsInt(Strip(user_input))
    THEN Out(cs, appts, pats, "enter_number_cancel", FALSE)
    ELSE LET selection == ParseInt(Strip(user_input)) - 1
             appointments_list == cs.appointments_to_modify
         IN IF 0 <= selection /\ selection < Len(appointments_list)
            THEN AgentCancelAppointment(cs, appts, pats, clock,
                                        appointments_list[selection + 1])
            ELSE Out(cs, appts, pats, "invalid_number", FALSE)

\* the select_appointment_reschedule step moving on without storing the choice
SelectAppointmentReschedule_NoTarget(cs, appts, pats, user_input) ==
    IF ~IsInt(Strip(user_input))
    THEN Out(cs, appts, pats, "enter_number_reschedule", FALSE)
    ELSE Out([cs EXCEPT !.conversation_step = "reschedule_datetime"],
             appts, pats, "ask_new_datetime", FALSE)

\* the select_appointment_reschedule step
SelectAppointmentReschedule(cs, appts, pats, user_input) ==
    IF ~IsInt(Strip(user_input))
    THEN Out(cs, appts, pats, "enter_number_reschedule", FALSE)
    ELSE LET selection == ParseInt(Strip(user_input)) - 1
             appointments_list == cs.appointments_to_modify
         IN IF 0 <= selection /\ selection < Len(appointments_list)
            THEN Out([cs EXCEPT !.appointment_to_reschedule =
                                    appointments_list[selection + 1],
                                !.conversation_step = "reschedule_datetime"],
                     appts, pats, "ask_new_datetime", FALSE)
            ELSE Out(cs, appts, pats, "invalid_number", FALSE)

\* the reschedule_datetime step keeping the conversation state after the write
RescheduleDatetime_KeepsState(cs, appts, pats, clock, user_input) ==
    LET i == FindAppointment(appts, cs.appointment_to_reschedule.appointment_id)
    IN IF cs.appointment_to_reschedule # NoAppointment /\ i # 0
       THEN Out(cs,
                [appts EXCEPT ![i].date = DatePreference(user_input),
                              ![i].time = TimePreference(user_input),
                              ![i].rescheduled_at = clock],
                pats, "rescheduled", TRUE)
       ELSE Out(cs, appts, pats, "reschedule_not_found", FALSE)

\* the reschedule_datetime step: the stored appointment gets the new date and
\* time and a rescheduled_at stamp; its status is left as it is
RescheduleDatetime(cs, appts, pats, clock, user_input) ==
    LET new_date == DatePreference(user_input)
        new_time == TimePreference(user_input)
        appointment_to_reschedule == cs.appointment_to_reschedule
        i == FindAppointment(appts, appointment_to_reschedule.appointment_id)
    IN IF appointment_to_reschedule # NoAppointment /\ i # 0
       THEN Out(EmptyState,
                [appts EXCEPT ![i].date = new_date, ![i].time = new_time,
                              ![i].rescheduled_at = clock],
                pats, "rescheduled", TRUE)
       ELSE Out(cs, appts, pats, "reschedule_not_found", FALSE)

\* the confirmation step resetting the conversation whatever the input
Confirmation_AlwaysResets(cs, appts, pats, user_input, intent) ==
    Out(EmptyState, appts, pats, "goodbye", FALSE)

\* the confirmation step: a negative or closing input ends the conversation
Confirmation(cs, appts, pats, user_input, intent) ==
    IF \/ intent = "negative"
       \/ AnyIn({"no", "nothing", "bye", "goodbye", "thanks", "thank you"},
                Strip(Lower(user_input)))
    THEN Out(EmptyState, appts, pats, "goodbye", FALSE)
    ELSE Out(cs, appts, pats, "how_else", FALSE)

\* the second chain of _generate_rule_based_response, entered when the first
\* chain has not returned
SchedulingResponse(cs, appts, pats, clock, user_input, analysis) ==
    LET intent == analysis.intent
        current_step == cs.conversation_step
    IN IF intent = "schedule_appointment" \/ current_step = "appointment_type"
       THEN IF cs.patient_name = Absent
            THEN Out([cs EXCEPT !.conversation_step = "name_requested"],
                     appts, pats, "ask_name_first", FALSE)
            ELSE IF analysis.specialty # Absent
            THEN Out([cs EXCEPT !.specialty = analysis.specialty,
                                !.conversation_step = "datetime_preference"],
                     appts, pats, "ask_datetime_for_specialty", FALSE)
            ELSE IF current_step = "appointment_type"
            THEN Out([cs EXCEPT !.specialty = Strip(user_input),
                                !.conversation_step = "datetime_preference"],
                     appts, pats, "ask_datetime_for_input", FALSE)
            ELSE Out([cs EXCEPT !.conversation_step = "appointment_type"],
                     appts, pats, "ask_doctor_type", FALSE)
       ELSE IF current_step = "datetime_preference"
       THEN Out([cs EXCEPT !.date_preference = DatePreference(user_input),
                           !.time_preference = TimePreference(user_input),
                           !.conversation_step = "insurance_info"],
                appts, pats, "ask_insurance", FALSE)
       ELSE IF current_step = "insurance_info"
       THEN Out([cs EXCEPT !.insurance_provider = Strip(user_input),
                           !.conversation_step = "email_collection"],
                appts, pats, "ask_email", FALSE)
       ELSE IF current_step = "email_collection"
       THEN EmailCollection(cs, appts, pats, clock, user_input)
       ELSE IF intent = "modify_appointment"
       THEN Out([cs EXCEPT !.conversation_step = "modification_type"],
                appts, pats, "modification_menu", FALSE)
       ELSE IF current_step = "modification_type"
       THEN LET user_lower == Lower(user_input)
            IN IF Contains("cancel", user_lower)
               THEN HandleAppointmentLookup([cs EXCEPT !.modification_action = "cancel"],
                                            appts, pats, clock, user_input, "cancel")
               ELSE IF Contains("reschedule", user_lower)
               THEN HandleAppointmentLookup(
                        [cs EXCEPT !.modification_action = "reschedule"],
                        appts, pats, clock, user_input, "reschedule")
               ELSE IF Contains("check", user_lower) \/ Contains("existing", user_lower)
               THEN HandleAppointmentLookup([cs EXCEPT !.modification_action = "check"],
                                            appts, pats, clock, user_input, "check")
               ELSE Out(cs, appts, pats, "specify_modification", FALSE)
       ELSE IF current_step = "confirmation"
       THEN Confirmation(cs, appts, pats, user_input, intent)
       ELSE IF current_step = "select_appointment_cancel"
       THEN SelectAppointmentCancel(cs, appts, pats, clock, user_input)
       ELSE IF current_step = "select_appointment_reschedule"
       THEN SelectAppointmentReschedule(cs, appts, pats, user_input)
       ELSE IF current_step = "reschedule_datetime"
       THEN RescheduleDatetime(cs, appts, pats, clock, user_input)
       ELSE Out(cs, appts, pats, "default", FALSE)

\* _generate_rule_based_response
GenerateRuleBasedResponse(cs0, appts, pats, clock, user_input, analysis) ==
    LET intent == analysis.intent
        input_lower == Strip(Lower(user_input))
        cs == IF cs0.conversation_step = Absent
              THEN [cs0 EXCEPT !.conversation_step = "initial"]
              ELSE cs0
        current_step == cs.conversation_step
    IN IF intent = "empty"
       THEN Out(cs0, appts, pats, "enter_message", FALSE)
       ELSE IF /\ intent = "greeting"
               /\ current_step = "initial"
               /\ ~Contains("cancel", input_lower)
               /\ ~Contains("reschedule", input_lower)
       THEN Out([cs EXCEPT !.conversation_step = "name_requested"],
                appts, pats, "welcome", FALSE)
       ELSE IF intent = "modify_appointment"
       THEN LET user_lower == Lower(user_input)
            IN IF Contains("cancel", user_lower)
               THEN HandleAppointmentLookup(cs, appts, pats, clock, user_input, "cancel")
               ELSE IF Contains("reschedule", user_lower)
               THEN HandleAppointmentLookup(cs, appts, pats, clock, user_input,
                                            "reschedule")
               ELSE IF Contains("check", user_lower)
               THEN HandleAppointmentLookup(cs, appts, pats, clock, user_input, "check")
               ELSE Out([cs EXCEPT !.conversation_step = "modification_type"],
                        appts, pats, "modification_menu", FALSE)
       ELSE IF /\ current_step = "name_requested"
               /\ intent \notin {"schedule_appointment", "modify_appointment", "greeting"}
       THEN Out([cs EXCEPT !.patient_name = NameOf(user_input),
                           !.conversation_step = "appointment_type"],
                appts, pats, "ask_doctor_type_by_name", FALSE)
       ELSE SchedulingResponse(cs, appts, pats, clock, user_input, analysis)

\* generate_response: analyse the input, then answer by the rules
GenerateResponse(cs, appts, pats, clock, user_input) ==
    GenerateRuleBasedResponse(cs, appts, pats, clock, user_input,
                              AnalyzeUserInput(user_input))

----------------------------------------------------------------------------
(* Inputs of the Slot Engine calls *)

DoctorIdInputs == {"DOC001", "DOC002", "DOC999"}
DateInputs == {"2026-10-30", "2026-11-02", "2026-11-03", "2026-11-07"}
TimeInputs == {"09:00", "11:00", "12:00"}
DurationInputs == {30, 60, 120}
PatientInputs == {[patient_id |-> "P0001", name |-> "Jane Doe"]}
ReasonInputs == {"", "patient request"}
UnknownAptId == "APT9999"

AptIdInputs(appts) == {appts[i].appointment_id : i \in 1..Len(appts)} \cup {UnknownAptId}

\* what the caller sees: the returned dict without the model's store component.
\* A success and the not-available failure quote the date and the time in
\* their message; the other failures quote an id only.  Of a not-available
\* failure the date is kept and the time is left out.
Returned(r) ==
    [op |-> r.op, success |-> r.success, message |-> r.message,
     appointment_id |-> r.appointment_id,
     date |-> IF r.success \/ r.message = "not_available" THEN r.date ELSE Absent,
     time |-> IF r.success THEN r.time ELSE Absent,
     appointment |-> r.appointment]

NoResult ==
    [op |-> "none", success |-> FALSE, message |-> Absent, appointment_id |-> Absent,
     date |-> Absent, time |-> Absent, appointment |-> NoAppointment]

\* datetime.now() is read only on the success path of a call
Tick(r) == IF r.success THEN now + 1 ELSE now

Commit(r) ==
    /\ appointments' = r.appointments
    /\ last' = Returned(r)
    /\ now' = Tick(r)
    /\ UNCHANGED <<enumeration, threads, dialogueVars>>

----------------------------------------------------------------------------
(* Concurrent callers of CalendarManager.book_slot.  A call is three steps, *)
(* each one access to appointments.json: get_available_slots (a load),     *)
(* _load_appointments (a second load) and _save_appointments (the write).  *)

Callers == {"caller1", "caller2"}

ConcDoctorInputs == {"DOC001", "DOC999"}
ConcDateInputs == {"2026-11-03"}
ConcTimeInputs == {"09:00", "11:00", "12:00"}
ConcDuration == 60

IdleThread ==
    [pc |-> "idle", doctor_id |-> Absent, date |-> Absent, time |-> Absent,
     local |-> << >>, result |-> NoResult]

\* what appointments.json holds after one earlier booking, made at clock 1
SeedStore ==
    BookSlot(<< >>, 1, "DOC001", "2026-11-03", "09:00",
             [patient_id |-> "P0001", name |-> "Jane Doe"], 60).appointments

\* no get_available_slots call is in progress
NoEnumeration ==
    [pc |-> "idle", doctor_id |-> Absent, date |-> Absent, duration |-> 0,
     current |-> 0, end_time |-> 0, slots |-> << >>]

\* the state after construction: the data directory is empty or holds the
\* one earlier booking; no call has been made
Init ==
    /\ appointments \in {<< >>, SeedStore}
    /\ now = 2
    /\ last = NoResult
    /\ threads = [t \in Callers |-> IdleThread]
    /\ patients = << >>
    /\ conversation_state = EmptyState
    /\ reply = Absent
    /\ enumeration = NoEnumeration

\* book_slot, lines 93-99: validate the slot against the store as it is now
BookValidate(t) ==
    /\ threads[t].pc = "idle"
    /\ \E doctor_id \in ConcDoctorInputs, date_str \in ConcDateInputs,
          time_str \in ConcTimeInputs :
          LET call == [threads[t] EXCEPT !.doctor_id = doctor_id, !.date = date_str,
                                         !.time = time_str]
          IN IF InSeq(time_str, GetAvailableSlots(appointments, doctor_id, date_str,
                                                  ConcDuration))
             THEN threads' = [threads EXCEPT ![t] = [call EXCEPT !.pc = "validated"]]
             ELSE threads' = [threads EXCEPT ![t] =
                      [call EXCEPT !.pc = "done",
                                   !.result = Returned(Result("book", FALSE,
                                       "not_available", Absent, date_str, time_str,
                                       NoAppointment, << >>))]]
    /\ UNCHANGED <<enumeration, appointments, now, last, dialogueVars>>

\* book_slot, lines 101-135: load the store, find the doctor, build the
\* appointment and append it to the loaded list
BookLoad(t) ==
    /\ threads[t].pc = "validated"
    /\ LET th == threads[t]
           loaded == appointments
           appointment ==
               [appointment_id |-> FormatAptId(Len(loaded) + 1),
                patient_id |-> "P0001",
                patient_name |-> "Jane Doe",
                doctor_id |-> th.doctor_id,
                date |-> th.date,
                time |-> th.time,
                duration_minutes |-> ConcDuration,
                status |-> "scheduled",
                created_at |-> now,
                rescheduled_at |-> 0,
                cancelled_at |-> 0,
                cancellation_reason |-> Absent]
       IN IF ~DoctorKnown(th.doctor_id)
          THEN /\ threads' = [threads EXCEPT ![t] =
                      [th EXCEPT !.pc = "done",
                                 !.result = Returned(Result("book", FALSE,
                                     "doctor_not_found", Absent, th.date, th.time,
                                     NoAppointment, << >>))]]
               /\ now' = now
          ELSE /\ threads' = [threads EXCEPT ![t] =
                      [th EXCEPT !.pc = "loaded",
                                 !.local = Append(loaded, appointment)]]
               /\ now' = now + 1
    /\ UNCHANGED <<enumeration, appointments, last, dialogueVars>>

\* book_slot, lines 136-146: write the list back and return success
BookSave(t) ==
    /\ threads[t].pc = "loaded"
    /\ LET th == threads[t]
           appointment == th.local[Len(th.local)]
       IN /\ appointments' = th.local
          /\ threads' = [threads EXCEPT ![t] =
                 [th EXCEPT !.pc = "done",
                            !.result = Returned(Result("book", TRUE, "booked",
                                appointment.appointment_id, th.date, th.time,
                                appointment, << >>))]]
    /\ UNCHANGED <<enumeration, now, last, dialogueVars>>

NextConc == \E t \in Callers : BookValidate(t) \/ BookLoad(t) \/ BookSave(t)

SpecConc == Init /\ [][NextConc]_vars

----------------------------------------------------------------------------
(* The Slot Engine, one call at a time *)

Book ==
    /\ now <= MaxNow
    /\ \E doctor_id \in DoctorIdInputs, date_str \in DateInputs, time_str \in TimeInputs,
          patient_data \in PatientInputs, duration_minutes \in DurationInputs :
          Commit(BookSlot(appointments, now, doctor_id, date_str, time_str,
                          patient_data, duration_minutes))

Reschedule ==
    /\ now <= MaxNow
    /\ \E appointment_id \in AptIdInputs(appointments), new_date \in DateInputs,
          new_time \in TimeInputs :
          Commit(RescheduleAppointment(appointments, now, appointment_id, new_date,
                                       new_time))

Cancel ==
    /\ now <= MaxNow
    /\ \E appointment_id \in AptIdInputs(appointments), reason \in ReasonInputs :
          Commit(CancelAppointment(appointments, now, appointment_id, reason))

Next == Book \/ Reschedule \/ Cancel

Spec == Init /\ [][Next]_vars

----------------------------------------------------------------------------
(* The Dialogue Engine: one conversation partner, one turn at a time *)

\* what the user may type at any point of a conversation, whatever was asked
Interruptions ==
    { "", "cancel my appointment Jane Doe", "reschedule my appointment Jane Doe" }

\* what the user types in answer to the question the last turn asked
Answers(conversation_step) ==
    CASE conversation_step = "name_requested" -> {"Jane Doe"}
      [] conversation_step = "appointment_type" -> {"cardiologist"}
      [] conversation_step = "datetime_preference" -> {"tomorrow morning"}
      [] conversation_step = "insurance_info" -> {"Aetna"}
      [] conversation_step = "email_collection" -> {"jane@example.com"}
      [] conversation_step = "confirmation" -> {"no thanks", "yes"}
      [] conversation_step = "modification_type" -> {"cancel"}
      [] conversation_step = "select_appointment_cancel" -> {"1", "2", "3"}
      [] conversation_step = "select_appointment_reschedule" -> {"1", "2", "3"}
      [] conversation_step = "reschedule_datetime" ->
             {"tomorrow morning", "next friday afternoon"}
      [] OTHER -> {"hello", "I want to book an appointment", "change my appointment"}

DialogueInputs(conversation_step) == Interruptions \cup Answers(conversation_step)

\* SchedulerAgent.generate_response(user_input)
Turn ==
    /\ now <= MaxNow
    /\ \E user_input \in DialogueInputs(conversation_state.conversation_step) :
          LET r == GenerateResponse(conversation_state, appointments, patients, now,
                                    user_input)
          IN /\ conversation_state' = r.conversation_state
             /\ appointments' = r.appointments
             /\ patients' = r.patients
             /\ reply' = r.reply
             /\ now' = IF r.ticked THEN now + 1 ELSE now
    /\ UNCHANGED <<enumeration, last, threads>>

NextDialogue == Turn

SpecDialogue == Init /\ [][NextDialogue]_vars

\* the same turns, for the properties of the conversation state as a whole
\* (what a step presupposes, what a completion leaves)
NextConversation == Turn

SpecConversation == Init /\ [][NextConversation]_vars

----------------------------------------------------------------------------
(* The Dialogue Engine on a console that cannot be written: print raises    *)
(* (an encoding error of the envelope sign, a closed stdout)                *)

\* SchedulerAgent.generate_response(user_input) when print raises.  The only
\* prints of a turn are those of _send_confirmation_email, reached in the
\* email_collection step after book_appointment has saved the appointment,
\* when the patient has an email.  The except of that step (lines 607-612)
\* catches the error: it sets the step to confirmation, as the booking has,
\* and answers that the booking failed.
TurnConsoleFails ==
    /\ now <= MaxNow
    /\ \E user_input \in DialogueInputs(conversation_state.conversation_step) :
          LET r == GenerateResponse(conversation_state, appointments, patients, now,
                                    user_input)
          IN /\ conversation_state' = r.conversation_state
             /\ appointments' = r.appointments
             /\ patients' = r.patients
             /\ reply' = IF /\ r.reply = "booked"
                            /\ GetOr(r.conversation_state.patient_email, "") # ""
                         THEN "booking_error"
                         ELSE r.reply
             /\ now' = IF r.ticked THEN now + 1 ELSE now
    /\ UNCHANGED <<enumeration, last, threads>>

NextConsoleFails == TurnConsoleFails

SpecConsoleFails == Init /\ [][NextConsoleFails]_vars

----------------------------------------------------------------------------
(* Both engines on the one appointments.json: Slot Engine calls and turns  *)
(* of the dialogue, one at a time                                           *)

\* the calls made next to a conversation: one doctor, one date, one duration
BothDoctorInputs == {"DOC001"}
BothDateInputs == {"2026-11-03"}
BothTimeInputs == {"09:00", "11:00"}

\* CalendarManager.book_slot
EngineBook ==
    /\ now <= MaxNow
    /\ \E doctor_id \in BothDoctorInputs, date_str \in BothDateInputs,
          time_str \in BothTimeInputs, patient_data \in PatientInputs :
          Commit(BookSlot(appointments, now, doctor_id, date_str, time_str,
                          patient_data, ConcDuration))

\* CalendarManager.reschedule_appointment
EngineReschedule ==
    /\ now <= MaxNow
    /\ \E i \in 1..Len(appointments), new_date \in BothDateInputs,
          new_time \in BothTimeInputs :
          Commit(RescheduleAppointment(appointments, now,
                                       appointments[i].appointment_id, new_date,
                                       new_time))

\* CalendarManager.cancel_appointment
EngineCancel ==
    /\ now <= MaxNow
    /\ \E i \in 1..Len(appointments) :
          Commit(CancelAppointment(appointments, now, appointments[i].appointment_id,
                                   ""))

\* SchedulerAgent.generate_response(user_input), the user answering what the
\* last turn asked
Answer ==
    /\ now <= MaxNow
    /\ \E user_input \in Answers(conversation_state.conversation_step) :
          LET r == GenerateResponse(conversation_state, appointments, patients, now,
                                    user_input)
          IN /\ conversation_state' = r.conversation_state
             /\ appointments' = r.appointments
             /\ patients' = r.patients
             /\ reply' = r.reply
             /\ now' = IF r.ticked THEN now + 1 ELSE now
    /\ UNCHANGED <<enumeration, last, threads>>

NextBoth == EngineBook \/ EngineReschedule \/ EngineCancel \/ Answer

SpecBoth == Init /\ [][NextBoth]_vars

----------------------------------------------------------------------------
(* The Slot Engine on a data directory whose writes may fail *)

\* _save_appointments: what appointments.json holds after the call.  An
\* exception of the write is logged and not raised again: the file is as it
\* was and the caller goes on.
SaveAppointments(stored, data, written) == IF written THEN data ELSE stored

\* the end of a call whose write may fail: the returned dict is the same
CommitSaving(r) ==
    /\ \E written \in BOOLEAN :
          appointments' = SaveAppointments(appointments, r.appointments, written)
    /\ last' = Returned(r)
    /\ now' = Tick(r)
    /\ UNCHANGED <<enumeration, threads, dialogueVars>>

\* CalendarManager.book_slot
BookSaving ==
    /\ now <= MaxNow
    /\ \E doctor_id \in DoctorIdInputs, date_str \in DateInputs, time_str \in TimeInputs,
          patient_data \in PatientInputs, duration_minutes \in DurationInputs :
          CommitSaving(BookSlot(appointments, now, doctor_id, date_str, time_str,
                                patient_data, duration_minutes))

\* CalendarManager.reschedule_appointment
RescheduleSaving ==
    /\ now <= MaxNow
    /\ \E appointment_id \in AptIdInputs(appointments), new_date \in DateInputs,
          new_time \in TimeInputs :
          CommitSaving(RescheduleAppointment(appointments, now, appointment_id,
                                             new_date, new_time))

\* CalendarManager.cancel_appointment
CancelSaving ==
    /\ now <= MaxNow
    /\ \E appointment_id \in AptIdInputs(appointments), reason \in ReasonInputs :
          CommitSaving(CancelAppointment(appointments, now, appointment_id, reason))

NextSaving == BookSaving \/ RescheduleSaving \/ CancelSaving

SpecSaving == Init /\ [][NextSaving]_vars

----------------------------------------------------------------------------
(* Notions used by the properties *)

Active(apt) == apt.status # "cancelled"

SameSlot(a, b) == a.doctor_id = b.doctor_id /\ a.date = b.date /\ a.time = b.time

KnownDoctorIds == {Doctors[i].doctor_id : i \in 1..Len(Doctors)}

\* minutes since midnight of a slot string "HH:00"
StartMinute(time_str) == HourOf(time_str) * 60

\* [start, start + duration) meets the lunch window
OverlapsLunch(time_str, duration_minutes) ==
    /\ StartMinute(time_str) < LunchEnd * 60
    /\ StartMinute(time_str) + duration_minutes > LunchStart * 60

Elems(s) == {s[i] : i \in 1..Len(s)}

\* the appointment ids the store holds
StoredIds(appts) == {appts[i].appointment_id : i \in 1..Len(appts)}

\* the sequence s without the occurrences of x
Without(s, x) == LET Other(y) == y # x IN SelectSeq(s, Other)

\* the weekday of the date is a day of the doctor's weekly schedule
WorksOn(doctor, date_str) ==
    \E k \in 1..Len(doctor.schedule) :
        doctor.schedule[k].day = DayName(Strptime(date_str))

\* the times of day (minutes since midnight) between which the doctor works on
\* the date, by the doctor's own weekly schedule
WorkingDayOf(doctor, date_str) ==
    LET days == {k \in 1..Len(doctor.schedule) :
                    doctor.schedule[k].day = DayName(Strptime(date_str))}
    IN [start |-> ParseTime(doctor.schedule[First(days)].start_time),
        end |-> ParseTime(doctor.schedule[First(days)].end_time)]

----------------------------------------------------------------------------
(* get_available_slots, one iteration of its while loop at a time.  The     *)
(* call is one thread of control: a loop that has started keeps running.   *)

\* the durations a caller asks for
PositiveDurations == {1, 30, 45, 60, 120}

\* current_hour += 1 without the floor of one hour
NextHour_Truncated(current_hour, duration_minutes) ==
    current_hour + (duration_minutes \div 60)

\* current_hour += max(1, duration_minutes // 60)
NextHour(current_hour, duration_minutes) ==
    current_hour + Max(1, duration_minutes \div 60)

\* CalendarManager.get_available_slots up to its loop: the guards on the date
CalendarCall ==
    /\ enumeration.pc = "idle"
    /\ \E doctor_id \in DoctorIdInputs, date_str \in DateInputs,
          duration_minutes \in PositiveDurations :
          LET target_date == Strptime(date_str)
              call == [NoEnumeration EXCEPT !.doctor_id = doctor_id,
                                            !.date = date_str,
                                            !.duration = duration_minutes]
          IN IF \/ target_date = 0
                \/ Weekday(target_date) \notin WorkingDays
                \/ target_date <= Strptime(Today)
             THEN enumeration' = [call EXCEPT !.pc = "calendar_returned"]
             ELSE enumeration' = [call EXCEPT !.pc = "calendar_loop",
                                              !.current = BusinessStart,
                                              !.end_time = BusinessEnd]
    /\ UNCHANGED <<appointments, now, last, threads, dialogueVars>>

\* one pass through the body of the while loop over current_hour
CalendarIteration ==
    /\ enumeration.pc = "calendar_loop"
    /\ enumeration.current < enumeration.end_time
    /\ IF LunchStart <= enumeration.current /\ enumeration.current < LunchEnd
       THEN enumeration' = [enumeration EXCEPT !.current = @ + 1]
       ELSE LET time_slot == FormatHour(enumeration.current)
            IN enumeration' =
                   [enumeration EXCEPT
                       !.slots = IF IsBooked(appointments, enumeration.doctor_id,
                                             enumeration.date, time_slot)
                                 THEN @ ELSE Append(@, time_slot),
                       !.current = NextHour(@, enumeration.duration)]
    /\ UNCHANGED <<appointments, now, last, threads, dialogueVars>>

\* the loop condition fails: return available_slots
CalendarReturn ==
    /\ enumeration.pc = "calendar_loop"
    /\ enumeration.current >= enumeration.end_time
    /\ enumeration' = [enumeration EXCEPT !.pc = "calendar_returned"]
    /\ UNCHANGED <<appointments, now, last, threads, dialogueVars>>

\* SchedulerAgent.get_available_slots up to its loop: the doctor and the day
AgentCall ==
    /\ enumeration.pc = "idle"
    /\ \E doctor_id \in DoctorIdInputs, date \in DateInputs,
          duration \in PositiveDurations :
          LET known == {i \in 1..Len(Doctors) : Doctors[i].doctor_id = doctor_id}
              date_obj == Strptime(date)
              call == [NoEnumeration EXCEPT !.doctor_id = doctor_id, !.date = date,
                                            !.duration = duration]
          IN IF \/ known = {}
                \/ date_obj = 0
                \/ ~WorksOn(Doctors[First(known)], date)
             THEN enumeration' = [call EXCEPT !.pc = "agent_returned"]
             ELSE LET schedule == WorkingDayOf(Doctors[First(known)], date)
                  IN enumeration' = [call EXCEPT !.pc = "agent_loop",
                                                 !.current = schedule.start,
                                                 !.end_time = schedule.end]
    /\ UNCHANGED <<appointments, now, last, threads, dialogueVars>>

\* one pass through the body of the while loop over current_time
AgentIteration ==
    /\ enumeration.pc = "agent_loop"
    /\ enumeration.current + enumeration.duration <= enumeration.end_time
    /\ enumeration' =
           [enumeration EXCEPT
               !.slots = IF enumeration.current \div 60 # 12
                         THEN Append(@, FormatTime(enumeration.current)) ELSE @,
               !.current = @ + enumeration.duration]
    /\ UNCHANGED <<appointments, now, last, threads, dialogueVars>>

\* the loop condition fails: return slots
AgentReturn ==
    /\ enumeration.pc = "agent_loop"
    /\ enumeration.current + enumeration.duration > enumeration.end_time
    /\ enumeration' = [enumeration EXCEPT !.pc = "agent_returned"]
    /\ UNCHANGED <<appointments, now, last, threads, dialogueVars>>

NextSlots ==
    \/ CalendarCall \/ CalendarIteration \/ CalendarReturn
    \/ AgentCall \/ AgentIteration \/ AgentReturn

SpecSlots == Init /\ [][NextSlots]_vars /\ WF_vars(NextSlots)

----------------------------------------------------------------------------
(* C1 *)

\* C1: no double-booking. After any sequence of Slot Engine book, reschedule
\* and cancel calls, at most one appointment whose status is not cancelled
\* exists for every (doctor, date, time).
C1_NoDoubleBooking ==
    \A i, j \in 1..Len(appointments) :
        (i # j /\ Active(appointments[i]) /\ Active(appointments[j]))
            => ~SameSlot(appointments[i], appointments[j])

\* two active appointments of one doctor and date stand in different slots
\* and a reschedule of one of them has just been turned down as unavailable
C1_Witness ==
    /\ last.op = "reschedule" /\ ~last.success /\ last.message = "not_available"
    /\ \E i, j \in 1..Len(appointments) :
          /\ i # j
          /\ appointments[i].appointment_id = last.appointment_id
          /\ Active(appointments[i]) /\ Active(appointments[j])
          /\ appointments[j].doctor_id = appointments[i].doctor_id
          /\ appointments[j].date = appointments[i].date
          /\ appointments[j].time # appointments[i].time

----------------------------------------------------------------------------
(* C2 *)

\* C2: when two book calls for the same (doctor, date, time) run concurrently
\* with their load / availability-check / save steps interleaved, exactly one
\* returns success, the other is rejected as slot unavailable, and the store
\* never holds two non-cancelled appointments for that slot.
C2_OneWinner ==
    /\ \A i, j \in 1..Len(appointments) :
          (i # j /\ Active(appointments[i]) /\ Active(appointments[j]))
              => ~SameSlot(appointments[i], appointments[j])
    /\ \A t, u \in Callers :
          (/\ t # u
           /\ threads[t].pc = "done" /\ threads[u].pc = "done"
           /\ threads[t].doctor_id = threads[u].doctor_id
           /\ threads[t].doctor_id \in KnownDoctorIds
           /\ threads[t].date = threads[u].date
           /\ threads[t].time = threads[u].time
           /\ HourOf(threads[t].time) # LunchStart)
              => \/ /\ threads[t].result.success
                    /\ ~threads[u].result.success
                    /\ threads[u].result.message = "not_available"
                 \/ /\ threads[u].result.success
                    /\ ~threads[t].result.success
                    /\ threads[t].result.message = "not_available"

----------------------------------------------------------------------------
(* C3 *)

\* C3: the dialogue's booking step (email_collection) books through the Slot
\* Engine's availability check: when the resolved doctor already has a
\* non-cancelled appointment at the requested date and time no appointment is
\* created, so no sequence of conversations leaves two non-cancelled
\* appointments for the same doctor, date and time: every non-cancelled
\* appointment is the only non-cancelled one of its slot.
C3_DialogueNoDoubleBooking ==
    \A k \in 1..Len(appointments) :
        Active(appointments[k]) =>
            Cardinality({i \in 1..Len(appointments) :
                            /\ Active(appointments[i])
                            /\ SameSlot(appointments[i], appointments[k])}) = 1

----------------------------------------------------------------------------
(* C4 *)

\* C4: book is rejected as slot unavailable whenever the requested time is
\* not in availableSlots evaluated against the store at call time; a time
\* already held by an appointment of that doctor and date, a time in the
\* lunch hour, and any time on a non-working or non-future date are rejected,
\* and the store is left as it was.
C4_BookRejectsUnavailable ==
    \A doctor_id \in DoctorIdInputs, date_str \in DateInputs,
       duration_minutes \in DurationInputs :
        LET offered == Elems(GetAvailableSlots(appointments, doctor_id, date_str,
                                               duration_minutes))
            nonWorking == Weekday(Strptime(date_str)) \notin WorkingDays
            nonFuture == Strptime(date_str) <= Strptime(Today)
        IN \A time_str \in TimeInputs, patient_data \in PatientInputs :
            LET r == BookSlot(appointments, now, doctor_id, date_str, time_str,
                              patient_data, duration_minutes)
                held == \E i \in 1..Len(appointments) :
                            /\ appointments[i].doctor_id = doctor_id
                            /\ appointments[i].date = date_str
                            /\ appointments[i].time = time_str
                lunch == LunchStart <= HourOf(time_str) /\ HourOf(time_str) < LunchEnd
            IN (held \/ lunch \/ nonWorking \/ nonFuture \/ time_str \notin offered)
                  => /\ ~r.success
                     /\ r.message = "not_available"
                     /\ r.appointments = appointments

\* a book has just been rejected as unavailable while every slot of the
\* inputs on the bookable date is held by an appointment of DOC001
C4_Witness ==
    /\ last.op = "book" /\ ~last.success /\ last.message = "not_available"
    /\ \A time_str \in {"09:00", "11:00"} :
          \E i \in 1..Len(appointments) :
              /\ appointments[i].doctor_id = "DOC001"
              /\ appointments[i].date = "2026-11-03"
              /\ appointments[i].time = time_str

----------------------------------------------------------------------------
(* C5 *)

----------------------------------------------------------------------------
(* C6 *)

\* C6: reschedule self-exclusion. Rescheduling an appointment to its own
\* current date and time succeeds.
C6_RescheduleToOwnSlot ==
    \A i \in 1..Len(appointments) :
        RescheduleAppointment(appointments, now, appointments[i].appointment_id,
                              appointments[i].date, appointments[i].time).success

----------------------------------------------------------------------------
(* C7 *)

\* C7: cancel idempotence. Cancelling an already cancelled appointment
\* succeeds and returns the record unchanged (same status, cancellation
\* reason and cancellation timestamp), whatever reason is passed.
C7_CancelIdempotent ==
    \A i \in 1..Len(appointments), reason \in ReasonInputs :
        appointments[i].status = "cancelled" =>
            LET r == CancelAppointment(appointments, now,
                                       appointments[i].appointment_id, reason)
            IN /\ r.success
               /\ r.appointment = appointments[i]
               /\ r.appointments = appointments

----------------------------------------------------------------------------
(* C8 *)

\* C8: cancelled is terminal. Once an appointment's status is cancelled, no
\* later step changes its status, date or time.
C8_CancelledTerminal ==
    [][\A i \in 1..Len(appointments) :
          appointments[i].status = "cancelled" =>
              /\ i <= Len(appointments')
              /\ appointments'[i].status = "cancelled"
              /\ appointments'[i].date = appointments[i].date
              /\ appointments'[i].time = appointments[i].time]_vars

----------------------------------------------------------------------------
(* C9 *)

\* C9: a cancelled appointment does not occupy its slot. When the only
\* appointment at (doctor, date, time) is cancelled, that time is returned by
\* availableSlots for that doctor and date, and a book for it succeeds.
C9_CancelFreesSlot ==
    \A i \in 1..Len(appointments) :
        LET a == appointments[i] IN
        (/\ a.status = "cancelled"
         /\ \A j \in 1..Len(appointments) : j # i => ~SameSlot(appointments[j], a))
            => /\ a.time \in Elems(GetAvailableSlots(appointments, a.doctor_id, a.date,
                                                     GetDuration(a)))
               /\ \A patient_data \in PatientInputs :
                     BookSlot(appointments, now, a.doctor_id, a.date, a.time,
                              patient_data, GetDuration(a)).success

----------------------------------------------------------------------------
(* C10 *)

\* C10: lunch exclusion. For every doctor, date, store state and duration
\* that is a positive multiple of 30 minutes, no start time returned by
\* availableSlots has an interval [t, t + duration) overlapping 12:00-13:00.
C10_LunchExclusion ==
    \A doctor_id \in DoctorIdInputs, date_str \in DateInputs,
       duration_minutes \in DurationInputs :
        \A time_str \in Elems(GetAvailableSlots(appointments, doctor_id, date_str,
                                                 duration_minutes)) :
            ~OverlapsLunch(time_str, duration_minutes)

----------------------------------------------------------------------------
(* C11 *)

\* C11: past-date rejection. availableSlots for a date that is today or
\* earlier is empty for every doctor, duration and store state; consequently
\* no book or reschedule succeeds for such a date, and every appointment the
\* Slot Engine has placed stands on a date strictly in the future.
C11_PastDateRejected ==
    /\ \A doctor_id \in DoctorIdInputs, date_str \in DateInputs,
          duration_minutes \in DurationInputs :
          Strptime(date_str) <= Strptime(Today)
              => GetAvailableSlots(appointments, doctor_id, date_str,
                                   duration_minutes) = << >>
    /\ last.success /\ last.op \in {"book", "reschedule"}
          => Strptime(last.date) > Strptime(Today)
    /\ \A i \in 1..Len(appointments) :
          Strptime(appointments[i].date) > Strptime(Today)

\* a book for a working day before today has just been rejected as
\* unavailable although no appointment stands on that day
C11_Witness ==
    /\ last.op = "book" /\ ~last.success /\ last.message = "not_available"
    /\ Strptime(last.date) # 0
    /\ Strptime(last.date) < Strptime(Today)
    /\ Weekday(Strptime(last.date)) \in WorkingDays
    /\ \A i \in 1..Len(appointments) : appointments[i].date # last.date

----------------------------------------------------------------------------
(* C12 *)

\* C12: availableSlots returns the empty sequence whenever the weekday of the
\* date is absent from that doctor's own weekly schedule, so no appointment
\* stands in the store for a doctor on a day the doctor does not work.
C12_NonWorkingDayEmpty ==
    /\ \A d \in 1..Len(Doctors), date_str \in DateInputs,
          duration_minutes \in DurationInputs :
          ~WorksOn(Doctors[d], date_str)
              => /\ AgentGetAvailableSlots(Doctors[d].doctor_id, date_str,
                                           duration_minutes) = << >>
                 /\ GetAvailableSlots(appointments, Doctors[d].doctor_id, date_str,
                                      duration_minutes) = << >>
    /\ \A i \in 1..Len(appointments), d \in 1..Len(Doctors) :
          appointments[i].doctor_id = Doctors[d].doctor_id
              => WorksOn(Doctors[d], appointments[i].date)

----------------------------------------------------------------------------
(* C13 *)

\* C13: after a successful book of (doctor, date, t), t is no longer returned
\* by availableSlots for that doctor and date at any duration, while the
\* slots returned for that doctor and date are otherwise the ones returned
\* before, and the slots of every other doctor and date are unchanged.
C13_BookFrame ==
    [][(last'.op = "book" /\ last'.success /\ now' # now) =>
          \A doctor_id \in DoctorIdInputs, date_str \in DateInputs,
             duration_minutes \in DurationInputs :
              LET before == GetAvailableSlots(appointments, doctor_id, date_str,
                                              duration_minutes)
                  after == GetAvailableSlots(appointments', doctor_id, date_str,
                                             duration_minutes)
              IN IF doctor_id = last'.appointment.doctor_id /\ date_str = last'.date
                 THEN /\ ~InSeq(last'.time, after)
                      /\ after = Without(before, last'.time)
                 ELSE after = before]_vars

\* 09:00 has just been booked: the doctor and date no longer offer 09:00 and
\* still offer 10:00
C13_Witness ==
    /\ last.op = "book" /\ last.success /\ last.time = "09:00"
    /\ LET offered == GetAvailableSlots(appointments, last.appointment.doctor_id,
                                        last.date, DefaultDuration)
       IN InSeq("10:00", offered) /\ ~InSeq("09:00", offered)

----------------------------------------------------------------------------
(* C14 *)

\* C14: a successful Slot Engine reschedule changes only the moved
\* appointment's date, time, status (set to rescheduled) and rescheduled
\* timestamp: its id, patient, doctor, duration and its other fields are
\* unchanged, every other appointment is untouched, and the appointment can
\* afterwards be cancelled, and rescheduled again to any slot still offered.
C14_RescheduleFrame ==
    \A appointment_id \in AptIdInputs(appointments), new_date \in DateInputs,
       new_time \in TimeInputs :
        LET r == RescheduleAppointment(appointments, now, appointment_id, new_date,
                                       new_time)
            i == FindAppointment(appointments, appointment_id)
        IN r.success =>
            /\ i # 0
            /\ Len(r.appointments) = Len(appointments)
            /\ \A j \in 1..Len(appointments) : j # i => r.appointments[j] = appointments[j]
            /\ LET old == appointments[i]
                   new == r.appointments[i]
               IN /\ new.date = new_date /\ new.time = new_time
                  /\ new.status = "rescheduled" /\ new.rescheduled_at = now
                  /\ new.appointment_id = old.appointment_id
                  /\ new.patient_id = old.patient_id
                  /\ new.patient_name = old.patient_name
                  /\ new.doctor_id = old.doctor_id
                  /\ new.duration_minutes = old.duration_minutes
                  /\ new.created_at = old.created_at
                  /\ new.cancelled_at = old.cancelled_at
                  /\ new.cancellation_reason = old.cancellation_reason
                  /\ r.appointment = new
            /\ \A reason \in ReasonInputs :
                  LET c == CancelAppointment(r.appointments, now + 1, appointment_id,
                                             reason)
                  IN c.success /\ c.appointment.appointment_id = appointment_id
            /\ \A date2 \in DateInputs :
                  \A time2 \in Elems(GetAvailableSlots(r.appointments,
                                                       r.appointment.doctor_id, date2,
                                                       GetDuration(r.appointment))) :
                      LET again == RescheduleAppointment(r.appointments, now + 1,
                                                         appointment_id, date2, time2)
                      IN /\ again.success
                         /\ again.appointment.appointment_id = appointment_id
                         /\ again.appointment.time = time2

\* the appointment of the store, booked before the first call, was
\* rescheduled by every call since (none cancelled it, none booked another)
\* and has just been rescheduled again: it still is Jane Doe's 60 minutes
C14_Witness ==
    /\ last.op = "reschedule" /\ last.success
    /\ last.appointment.status = "rescheduled"
    /\ last.appointment.rescheduled_at = MaxNow
    /\ last.appointment.created_at = SeedStore[1].created_at
    /\ last.appointment.cancelled_at = 0
    /\ Len(appointments) = 1
    /\ appointments[1] = last.appointment
    /\ appointments[1].patient_name = "Jane Doe"
    /\ appointments[1].duration_minutes = 60

----------------------------------------------------------------------------
(* C15 *)

\* a date string strptime cannot parse
UnparsableDate == "tomorrow"

\* C15: every rejected Slot Engine operation returns a failure value and
\* leaves the appointment store exactly as it was: book with an unavailable
\* slot (or a date that does not parse) or an unknown doctor, reschedule with
\* an unknown appointment id or an unavailable target slot, cancel with an
\* unknown id are all rejected, and every call that is rejected returns one
\* of the failure messages, no appointment, and the store it found.
C15_RejectionLeavesStore ==
    /\ \A doctor_id \in DoctorIdInputs, date_str \in DateInputs \cup {UnparsableDate},
          time_str \in TimeInputs, patient_data \in PatientInputs,
          duration_minutes \in DurationInputs :
          LET r == BookSlot(appointments, now, doctor_id, date_str, time_str,
                            patient_data, duration_minutes)
              offered == GetAvailableSlots(appointments, doctor_id, date_str,
                                           duration_minutes)
          IN /\ (~InSeq(time_str, offered) \/ doctor_id \notin KnownDoctorIds)
                   => ~r.success
             /\ ~r.success
                   => /\ r.message \in {"not_available", "doctor_not_found"}
                      /\ r.appointment = NoAppointment
                      /\ r.appointments = appointments
    /\ \A appointment_id \in AptIdInputs(appointments),
          new_date \in DateInputs \cup {UnparsableDate}, new_time \in TimeInputs :
          LET r == RescheduleAppointment(appointments, now, appointment_id, new_date,
                                         new_time)
              i == FindAppointment(appointments, appointment_id)
          IN /\ (i = 0 \/ appointment_id = UnknownAptId) => ~r.success
             /\ (i # 0 /\ ~InSeq(new_time,
                                  GetAvailableSlots(appointments,
                                                    appointments[i].doctor_id, new_date,
                                                    GetDuration(appointments[i]))))
                   => ~r.success
             /\ ~r.success
                   => /\ r.message \in {"not_found", "not_available"}
                      /\ r.appointment = NoAppointment
                      /\ r.appointments = appointments
    /\ \A appointment_id \in AptIdInputs(appointments), reason \in ReasonInputs :
          LET r == CancelAppointment(appointments, now, appointment_id, reason)
          IN /\ appointment_id = UnknownAptId => ~r.success
             /\ ~r.success
                   => /\ r.message = "not_found"
                      /\ r.appointment = NoAppointment
                      /\ r.appointments = appointments

\* a reschedule of one of the two appointments of the store to the date of
\* the other one has just been rejected, and both stand where they were booked
C15_Witness ==
    /\ last.op = "reschedule" /\ ~last.success /\ last.message = "not_available"
    /\ Len(appointments) = 2
    /\ \E i, j \in 1..Len(appointments) :
          /\ i # j
          /\ appointments[i].appointment_id = last.appointment_id
          /\ appointments[i].status = "scheduled"
          /\ appointments[i].rescheduled_at = 0
          /\ appointments[j].doctor_id = appointments[i].doctor_id
          /\ appointments[j].status = "scheduled"
          /\ appointments[j].rescheduled_at = 0
          /\ appointments[j].date = last.date

----------------------------------------------------------------------------
(* C16 *)

\* C16: appointment ids are unique and never reused. After any sequence of
\* bookings (Slot Engine book or the booking step of the dialogue),
\* reschedules and cancels executed one at a time, the ids in the store are
\* pairwise distinct; every step keeps the id of every stored appointment,
\* and an appointment a step adds carries an id no stored appointment holds.
C16_UniqueIds ==
    /\ [](\A i, j \in 1..Len(appointments) :
              i # j => appointments[i].appointment_id # appointments[j].appointment_id)
    /\ [][/\ Len(appointments') >= Len(appointments)
           /\ \A i \in 1..Len(appointments) :
                 appointments'[i].appointment_id = appointments[i].appointment_id
           /\ \A k \in (Len(appointments) + 1)..Len(appointments') :
                 appointments'[k].appointment_id \notin StoredIds(appointments)]_vars

\* the store holds an appointment booked by book_slot that has since been
\* cancelled or rescheduled, and the dialogue has just booked a later one
\* (book_appointment stores no duration)
C16_Witness ==
    /\ Len(appointments) >= 2
    /\ \E i, j \in 1..Len(appointments) :
          /\ appointments[i].duration_minutes = 0
          /\ appointments[i].created_at > appointments[j].created_at
          /\ appointments[j].duration_minutes # 0
          /\ appointments[j].status # "scheduled"
    /\ reply = "booked"

----------------------------------------------------------------------------
(* C17 *)

\* C17: no lost updates on the shared store. When two book calls for
\* different slots have run concurrently, their load and save steps
\* interleaved, and both have returned success, the appointments of both are
\* in the store.
C17_NoLostUpdate ==
    \A t, u \in Callers :
        (/\ t # u
         /\ threads[t].pc = "done" /\ threads[u].pc = "done"
         /\ threads[t].result.success /\ threads[u].result.success
         /\ threads[t].time # threads[u].time)
            => \A c \in {t, u} :
                  \E i \in 1..Len(appointments) :
                      /\ appointments[i].doctor_id = threads[c].doctor_id
                      /\ appointments[i].date = threads[c].date
                      /\ appointments[i].time = threads[c].time

----------------------------------------------------------------------------
(* C18 *)

\* C18: a persistence failure is never silently dropped. A book, reschedule
\* or cancel reports success only when the store holds its effect: the
\* appointment the call returned is a record of the store.
C18_SuccessMeansStored ==
    last.success => InSeq(last.appointment, appointments)

----------------------------------------------------------------------------
(* C19 *)

\* the replies that tell the user of an internal error
ErrorReplies == {"technical_difficulties", "booking_error"}

\* C19: when an unexpected internal error occurs while a turn is handled, in
\* any conversation step, the turn answers with an apology and leaves the
\* conversation state (the step and every collected field) exactly as it was
\* before the turn.
C19_ErrorKeepsState ==
    [][reply' \in ErrorReplies => conversation_state' = conversation_state]_vars

----------------------------------------------------------------------------
(* C20 *)

\* what a turn in the present state does with each utterance: a greeting at
\* the initial step moves the step to name_requested, and in name_requested
\* an utterance whose intent is not among the exempt ones is stored as the
\* patient name, without its filler prefix, the step becoming
\* appointment_type
NameStepAccepts(exempt) ==
    LET step == conversation_state.conversation_step IN
    \A user_input \in Utterances :
        LET intent == AnalyzeUserInput(user_input).intent
            after == GenerateResponse(conversation_state, appointments, patients, now,
                                      user_input).conversation_state
        IN /\ (step \in {Absent, "initial"} /\ intent = "greeting")
                 => after.conversation_step = "name_requested"
           /\ (step = "name_requested" /\ intent \notin exempt)
                 => /\ after.conversation_step = "appointment_type"
                    /\ after.patient_name = IF user_input = "my name is Jane Doe"
                                            THEN "Jane Doe"
                                            ELSE user_input

\* C20 as stated: from the initial step a greeting-intent input moves the
\* step to name_requested; in name_requested any input not classified as a
\* schedule, modify or greeting intent is stored as the patient name (filler
\* prefix stripped) and the step becomes appointment_type.
C20_AnyOtherInputIsName ==
    NameStepAccepts({"schedule_appointment", "modify_appointment", "greeting"})

\* C20 amended: from the initial step a greeting-intent input moves the step
\* to name_requested; in name_requested any input that is not empty and not
\* classified as a schedule, modify or greeting intent is stored as the
\* patient name (filler prefix stripped) and the step becomes
\* appointment_type.
C20_NonEmptyOtherInputIsName ==
    NameStepAccepts({"schedule_appointment", "modify_appointment", "greeting", "empty"})

\* the greeting has been answered with the name: it is stored and the doctor
\* type is asked for
C20_Witness ==
    /\ reply = "ask_doctor_type_by_name"
    /\ conversation_state.conversation_step = "appointment_type"
    /\ conversation_state.patient_name = "Jane Doe"
    /\ conversation_state.specialty = Absent

----------------------------------------------------------------------------
(* C21 *)

\* the step that follows a step of the booking flow
FlowNext(step) ==
    CASE step = "initial" -> "name_requested"
      [] step = "name_requested" -> "appointment_type"
      [] step = "appointment_type" -> "datetime_preference"
      [] step = "datetime_preference" -> "insurance_info"
      [] step = "insurance_info" -> "email_collection"
      [] step = "email_collection" -> "confirmation"

\* the step a turn starts from: a conversation without a step is at initial
StepOf(cs) == GetOr(cs.conversation_step, "initial")

\* C21: booking flow progress. From initial a greeting, and from each of
\* name_requested, appointment_type, datetime_preference, insurance_info and
\* email_collection a reply classified as general, moves the step to the next
\* step of the flow, one step per turn; the first five turns leave the store
\* as it is and the turn that reaches confirmation adds exactly one
\* appointment, of status scheduled (the doctors are not empty).
C21_BookingFlow ==
    LET step == StepOf(conversation_state) IN
    step \in {"initial", "name_requested", "appointment_type", "datetime_preference",
              "insurance_info", "email_collection"}
        => \A user_input \in Utterances :
              LET intent == AnalyzeUserInput(user_input).intent
                  r == GenerateResponse(conversation_state, appointments, patients,
                                        now, user_input)
              IN intent = (IF step = "initial" THEN "greeting" ELSE "general")
                    => /\ r.conversation_state.conversation_step = FlowNext(step)
                       /\ IF step = "email_collection"
                          THEN /\ Len(Doctors) > 0
                               /\ Len(r.appointments) = Len(appointments) + 1
                               /\ SubSeq(r.appointments, 1, Len(appointments))
                                     = appointments
                               /\ r.appointments[Len(r.appointments)].status
                                     = "scheduled"
                          ELSE r.appointments = appointments

\* the six turns have been taken with an empty store: the step is
\* confirmation, every answer is stored and the one appointment of the store
\* is the booking, scheduled
C21_Witness ==
    /\ reply = "booked"
    /\ conversation_state.conversation_step = "confirmation"
    /\ conversation_state.patient_name = "Jane Doe"
    /\ conversation_state.specialty = "cardiologist"
    /\ conversation_state.date_preference = "tomorrow"
    /\ conversation_state.insurance_provider = "Aetna"
    /\ conversation_state.patient_email = "jane@example.com"
    /\ Len(appointments) = 1
    /\ appointments[1].status = "scheduled"
    /\ appointments[1].patient_name = "Jane Doe"
    /\ appointments[1].duration_minutes = 0

----------------------------------------------------------------------------
(* C22 *)

\* the steps of the booking flow that collect the details of the booking
InformationalSteps == {"datetime_preference", "insurance_info", "email_collection"}

\* the steps of the booking flow
BookingFlowSteps ==
    {"name_requested", "appointment_type", "datetime_preference", "insurance_info",
     "email_collection", "confirmation"}

\* the replies of the modification branch: those of the lookup, of the
\* cancellation, and the menu
ModificationReplies ==
    {"provide_name", "no_appointments_found", "appointment_list", "cancelled",
     "cancel_not_found", "choose_cancel", "choose_reschedule", "ask_new_datetime",
     "modification_menu"}

\* every field collected so far is still what it was
KeepsCollected(before, after) ==
    /\ before.patient_name # Absent => after.patient_name = before.patient_name
    /\ before.specialty # Absent => after.specialty = before.specialty
    /\ before.date_preference # Absent
          => after.date_preference = before.date_preference
    /\ before.time_preference # Absent
          => after.time_preference = before.time_preference
    /\ before.insurance_provider # Absent
          => after.insurance_provider = before.insurance_provider

\* C22: a modify-intent input is answered by the modification branch from
\* every conversation step except datetime_preference, insurance_info and
\* email_collection; in these three steps a modify-intent input leaves the
\* step in the booking flow and every field collected so far as it is.
C22_ModifyShortCircuit ==
    \A user_input \in Utterances :
        AnalyzeUserInput(user_input).intent = "modify_appointment"
            => LET r == GenerateResponse(conversation_state, appointments, patients,
                                         now, user_input)
               IN IF StepOf(conversation_state) \in InformationalSteps
                  THEN /\ r.conversation_state.conversation_step \in BookingFlowSteps
                       /\ KeepsCollected(conversation_state, r.conversation_state)
                  ELSE r.reply \in ModificationReplies

----------------------------------------------------------------------------
(* C23 *)

\* the replies of a booking attempt: booked, no doctor, an error while booking
BookingReplies == {"booked", "no_doctor", "booking_error"}

\* C23: the conversation never gets stuck in email_collection. Every
\* non-empty input received while the step is email_collection is stored as
\* the email, the booking is invoked, and the step is confirmation after the
\* turn, whatever the outcome of the booking.
C23_EmailAlwaysAdvances ==
    StepOf(conversation_state) = "email_collection"
        => \A user_input \in Utterances :
              AnalyzeUserInput(user_input).intent # "empty"
                  => LET r == GenerateResponse(conversation_state, appointments,
                                               patients, now, user_input)
                     IN /\ r.conversation_state.patient_email = Strip(user_input)
                        /\ r.reply \in BookingReplies
                        /\ r.conversation_state.conversation_step = "confirmation"

----------------------------------------------------------------------------
(* C24 *)

\* the stored patient bears the name the conversation has collected (the
\* comparison of first and last name of _find_or_create_patient)
BearsName(patient, patient_name) ==
    LET name_parts == Split(Strip(GetOr(patient_name, "")))
        first_name == IF Len(name_parts) > 0 THEN name_parts[1] ELSE "Unknown"
        last_name == IF Len(name_parts) > 1 THEN Join(Tail(name_parts)) ELSE "Patient"
    IN /\ Lower(patient.first_name) = Lower(first_name)
       /\ Lower(patient.last_name) = Lower(last_name)

\* C24: two patients with identical names but different emails resolve to
\* two distinct patient ids. When the booking of the email_collection step
\* finds or creates the patient for a name that a stored patient bears, with
\* an email that differs from the email of every stored patient of that name,
\* a new patient record with a fresh id is appended, the booking is made for
\* that id, and no stored patient record is modified.
C24_SameNameOtherEmail ==
    StepOf(conversation_state) = "email_collection"
        => \A user_input \in Utterances :
              LET email == Strip(user_input)
                  namesakes == {i \in 1..Len(patients) :
                                   BearsName(patients[i],
                                             conversation_state.patient_name)}
                  r == GenerateResponse(conversation_state, appointments, patients,
                                        now, user_input)
              IN (/\ AnalyzeUserInput(user_input).intent = "general"
                  /\ namesakes # {}
                  /\ \A i \in namesakes : Lower(patients[i].email) # Lower(email))
                    => /\ Len(r.patients) = Len(patients) + 1
                       /\ SubSeq(r.patients, 1, Len(patients)) = patients
                       /\ r.patients[Len(r.patients)].email = email
                       /\ \A i \in 1..Len(patients) :
                             r.patients[Len(r.patients)].patient_id
                                # patients[i].patient_id
                       /\ r.appointments[Len(r.appointments)].patient_id
                             = r.patients[Len(r.patients)].patient_id

----------------------------------------------------------------------------
(* C25 *)

\* a negative or closing input
Closing(user_input) ==
    \/ AnalyzeUserInput(user_input).intent = "negative"
    \/ AnyIn({"no", "nothing", "bye", "goodbye", "thanks", "thank you"},
             Strip(Lower(user_input)))

\* what a turn in the confirmation step does with each utterance whose intent
\* is not among the exempt ones: a negative or closing utterance empties the
\* conversation state, every other one leaves the conversation state, the
\* step with it, as it is; the stores are left alone in both cases
ConfirmationStepAnswers(exempt) ==
    StepOf(conversation_state) = "confirmation"
        => \A user_input \in Utterances :
              AnalyzeUserInput(user_input).intent \notin exempt
                  => LET r == GenerateResponse(conversation_state, appointments,
                                               patients, now, user_input)
                     IN /\ IF Closing(user_input)
                           THEN r.conversation_state = EmptyState
                           ELSE r.conversation_state = conversation_state
                        /\ r.appointments = appointments
                        /\ r.patients = patients

----------------------------------------------------------------------------
(* C26 *)

\* the action the lookup is called with for an input: the first of cancel,
\* reschedule and check (or existing) that the input names; none when it names
\* none of them, as the lookup is not called then
LookupActions(user_input) ==
    LET user_lower == Lower(user_input)
    IN IF Contains("cancel", user_lower) THEN {"cancel"}
       ELSE IF Contains("reschedule", user_lower) THEN {"reschedule"}
       ELSE IF Contains("check", user_lower) \/ Contains("existing", user_lower)
       THEN {"check"}
       ELSE {}

\* the places in the store of the appointments a lookup input matches: those
\* whose patient name contains one of the name tokens of the input
Matching(appts, user_input) ==
    LET name_parts == LookupNameParts(user_input)
    IN {i \in 1..Len(appts) :
           \E k \in 1..Len(name_parts) :
               Contains(Lower(name_parts[k]), Lower(appts[i].patient_name))}

\* the appointments at the given places, in the order of the store
RECURSIVE Picked(_, _, _)
Picked(appts, places, i) ==
    IF i > Len(appts) THEN << >>
    ELSE (IF i \in places THEN << appts[i] >> ELSE << >>)
         \o Picked(appts, places, i + 1)

----------------------------------------------------------------------------
(* C27 *)

\* the two steps that ask for the number of a candidate
SelectionSteps == {"select_appointment_cancel", "select_appointment_reschedule"}

\* the replies that ask for the input again
RePrompts ==
    {"enter_number_cancel", "enter_number_reschedule", "invalid_number",
     "enter_message"}

\* the input names one of the candidates: a number in 1..N
NamesCandidate(user_input, candidates) ==
    /\ IsInt(Strip(user_input))
    /\ ParseInt(Strip(user_input)) \in 1..Len(candidates)

\* what a turn in a selection step does with each utterance that names no
\* candidate and whose intent is not among the exempt ones: it asks again and
\* leaves the conversation state (the step and the candidates) and the stores
\* as they are
SelectionRejects(exempt) ==
    StepOf(conversation_state) \in SelectionSteps
        => \A user_input \in Utterances :
              (/\ AnalyzeUserInput(user_input).intent \notin exempt
               /\ ~NamesCandidate(user_input,
                                  conversation_state.appointments_to_modify))
                  => LET r == GenerateResponse(conversation_state, appointments,
                                               patients, now, user_input)
                     IN /\ r.reply \in RePrompts
                        /\ r.conversation_state = conversation_state
                        /\ r.appointments = appointments
                        /\ r.patients = patients

----------------------------------------------------------------------------
(* C28 *)

\* C28: in select_appointment_cancel a numeric input k in 1..N cancels
\* exactly the k-th appointment of the candidate list (its status becomes
\* cancelled), changes no other appointment and empties the conversation
\* state; in select_appointment_reschedule it stores exactly the k-th
\* candidate as the reschedule target, moves to reschedule_datetime and
\* changes no appointment.
C28_SelectionActsOnKth ==
    StepOf(conversation_state) \in SelectionSteps
        => \A user_input \in Utterances :
              LET candidates == conversation_state.appointments_to_modify IN
              NamesCandidate(user_input, candidates)
                  => LET k == ParseInt(Strip(user_input))
                         r == GenerateResponse(conversation_state, appointments,
                                               patients, now, user_input)
                         chosen == {i \in 1..Len(appointments) :
                                       appointments[i].appointment_id
                                          = candidates[k].appointment_id}
                     IN IF StepOf(conversation_state) = "select_appointment_cancel"
                        THEN /\ Cardinality(chosen) = 1
                             /\ Len(r.appointments) = Len(appointments)
                             /\ \A i \in 1..Len(appointments) :
                                   IF i \in chosen
                                   THEN r.appointments[i]
                                           = [appointments[i]
                                                 EXCEPT !.status = "cancelled",
                                                        !.cancelled_at = now]
                                   ELSE r.appointments[i] = appointments[i]
                             /\ r.conversation_state = EmptyState
                        ELSE /\ r.conversation_state.appointment_to_reschedule
                                   = candidates[k]
                             /\ r.conversation_state.conversation_step
                                   = "reschedule_datetime"
                             /\ r.appointments = appointments

\* of the two appointments of Jane Doe the second has been chosen in
\* select_appointment_cancel: it is cancelled, the first is still scheduled
\* and the conversation is over
C28_Witness ==
    /\ reply = "cancelled"
    /\ conversation_state = EmptyState
    /\ Len(appointments) = 2
    /\ appointments[1].patient_name = "Jane Doe"
    /\ appointments[2].patient_name = "Jane Doe"
    /\ appointments[1].status = "scheduled"
    /\ appointments[2].status = "cancelled"
    /\ appointments[2].cancelled_at # 0

----------------------------------------------------------------------------
(* C29 *)

\* C29: the reschedule_datetime step is Slot Engine reschedule applied to the
\* stored target and the date and time read from the input. An input that
\* reaches the step leaves appointments.json as reschedule_appointment leaves
\* it: when the target slot is not free the appointment is unchanged, and on
\* success the stored record has the new date and time and the status
\* rescheduled, and the conversation state is empty.
C29_RescheduleAsSlotEngine ==
    StepOf(conversation_state) = "reschedule_datetime"
        => \A user_input \in Utterances :
              AnalyzeUserInput(user_input).intent
                    \notin {"empty", "modify_appointment", "schedule_appointment"}
                  => LET r == GenerateResponse(conversation_state, appointments,
                                               patients, now, user_input)
                         target == conversation_state.appointment_to_reschedule
                         e == RescheduleAppointment(appointments, now,
                                                    target.appointment_id,
                                                    DatePreference(user_input),
                                                    TimePreference(user_input))
                     IN /\ r.appointments = e.appointments
                        /\ ~e.success => r.appointments = appointments
                        /\ e.success
                              => /\ r.conversation_state = EmptyState
                                 /\ \E i \in 1..Len(r.appointments) :
                                       /\ r.appointments[i].appointment_id
                                             = target.appointment_id
                                       /\ r.appointments[i].status = "rescheduled"

----------------------------------------------------------------------------
(* C30 *)

\* the keywords analyze_user_input looks for, in the order of its loops
DateKeywords ==
    << "today", "tomorrow", "monday", "tuesday", "wednesday", "thursday", "friday" >>

TimeKeywords ==
    << "morning", "afternoon", "evening", "9", "10", "11", "1", "2", "3", "4" >>

\* for keyword in keywords: if keyword in input_lower: entity = keyword
KeywordEntity(keywords, input_lower) ==
    LET hits == {i \in 1..Len(keywords) : Contains(keywords[i], input_lower)}
    IN IF hits = {} THEN Absent
       ELSE keywords[CHOOSE i \in hits : \A j \in hits : j <= i]

\* analyze_user_input in full: the intent and the three entities
IntentAndEntities(user_input) ==
    LET input_lower == Strip(Lower(user_input))
    IN IF input_lower = ""
       THEN [intent |-> "empty", specialty |-> Absent, date_preference |-> Absent,
             time_preference |-> Absent]
       ELSE [intent |-> DetectIntent(input_lower),
             specialty |-> SpecialtyEntity(input_lower),
             date_preference |-> KeywordEntity(DateKeywords, input_lower),
             time_preference |-> KeywordEntity(TimeKeywords, input_lower)]

\* C30: dialogue determinism. Two turns that start in the same conversation
\* state (and on the same stores) and receive inputs of the same intent and
\* entities end in the same conversation step and give a reply of the same
\* category; so two runs on the same sequence of (intent, entities) pass
\* through the same steps and response categories.
C30_Determinism ==
    \A first \in Utterances, second \in Utterances :
        IntentAndEntities(first) = IntentAndEntities(second)
            => LET r1 == GenerateResponse(conversation_state, appointments, patients,
                                          now, first)
                   r2 == GenerateResponse(conversation_state, appointments, patients,
                                          now, second)
               IN /\ r1.conversation_state.conversation_step
                        = r2.conversation_state.conversation_step
                  /\ r1.reply = r2.reply

----------------------------------------------------------------------------
(* C31 *)

\* the replies that end a conversation: the goodbye of the confirmation step,
\* a completed cancel, a completed reschedule and the listing of a check
CompletionReplies == {"goodbye", "cancelled", "rescheduled", "appointment_list"}

\* C31: every completion clears the conversation state. Whatever the state
\* and the input, a turn that answers with the goodbye of the confirmation
\* step, a completed cancel, a completed reschedule or the listing of a check
\* leaves the conversation state empty: no step (the next turn starts at
\* initial), no collected patient field, no candidate list and no reschedule
\* target.
C31_CompletionClears ==
    \A user_input \in Utterances :
        LET r == GenerateResponse(conversation_state, appointments, patients, now,
                                  user_input)
        IN r.reply \in CompletionReplies
               => /\ r.conversation_state = EmptyState
                  /\ StepOf(r.conversation_state) = "initial"
                  /\ r.conversation_state.patient_name = Absent
                  /\ r.conversation_state.appointments_to_modify = << >>
                  /\ r.conversation_state.appointment_to_reschedule = NoAppointment

\* a reschedule was completed in a conversation that had collected a target,
\* and the state is empty
C31_Witness ==
    /\ reply = "rescheduled"
    /\ conversation_state = EmptyState
    /\ \E i \in 1..Len(appointments) : appointments[i].rescheduled_at # 0

----------------------------------------------------------------------------
(* C32 *)

\* the durations asked for: the positive multiples of 30 minutes up to three hours
OfferedDurations == {30 * k : k \in 1..6}

\* C32: no offered slot runs past closing. For every duration that is a
\* positive multiple of 30 minutes, every start time returned by
\* availableSlots is at or after the start of the working day and satisfies
\* start + duration <= the end of the working day: CalendarManager's slots
\* against its business hours, SchedulerAgent's slots against the doctor's
\* schedule of that weekday.
C32_SlotsWithinWorkingDay ==
    \A doctor_id \in DoctorIdInputs, date_str \in DateInputs,
       duration_minutes \in OfferedDurations :
        /\ \A time_str \in Elems(GetAvailableSlots(appointments, doctor_id, date_str,
                                                    duration_minutes)) :
              /\ StartMinute(time_str) >= BusinessStart * 60
              /\ StartMinute(time_str) + duration_minutes <= BusinessEnd * 60
        /\ \A d \in 1..Len(Doctors) :
              Doctors[d].doctor_id = doctor_id
                  => \A time_str \in Elems(AgentGetAvailableSlots(doctor_id, date_str,
                                                                   duration_minutes)) :
                        /\ ParseTime(time_str)
                               >= WorkingDayOf(Doctors[d], date_str).start
                        /\ ParseTime(time_str) + duration_minutes
                               <= WorkingDayOf(Doctors[d], date_str).end

----------------------------------------------------------------------------
(* C33 *)

\* C33: availableSlots terminates with a finite sequence in both
\* implementations, for every doctor, date and positive duration. Every
\* iteration of the slot loop strictly advances the loop variable, the
\* iterations that skip the lunch hour included; a loop that has started
\* returns; and what it returns is the finite sequence of slots, no longer
\* than the working day counted in units of the loop variable.
C33_SlotLoopTerminates ==
    /\ [][enumeration.pc \in {"calendar_loop", "agent_loop"}
            /\ enumeration'.pc = enumeration.pc
              => enumeration'.current > enumeration.current]_vars
    /\ enumeration.pc = "calendar_loop" ~> enumeration.pc = "calendar_returned"
    /\ enumeration.pc = "agent_loop" ~> enumeration.pc = "agent_returned"
    /\ [](enumeration.pc = "calendar_returned"
            => /\ Len(enumeration.slots) <= enumeration.end_time
               /\ enumeration.slots
                      = GetAvailableSlots(appointments, enumeration.doctor_id,
                                          enumeration.date, enumeration.duration))
    /\ [](enumeration.pc = "agent_returned"
            => /\ Len(enumeration.slots) <= enumeration.end_time
               /\ enumeration.slots
                      = AgentGetAvailableSlots(enumeration.doctor_id, enumeration.date,
                                               enumeration.duration))

\* a half-hour enumeration of CalendarManager has returned after passing over
\* the lunch hour: it holds slots of the morning and of the afternoon
C33_Witness ==
    /\ enumeration.pc = "calendar_returned"
    /\ enumeration.duration = 30
    /\ InSeq("11:00", enumeration.slots)
    /\ InSeq("13:00", enumeration.slots)
    /\ ~InSeq("12:00", enumeration.slots)

----------------------------------------------------------------------------
(* C34 *)

\* the names and emails the conversation state holds when the patient is
\* looked for
PatientNames == {"Jane Doe", "jane doe", "John Roe", "Jane"}
PatientEmails == {"", "jane@example.com", "JANE@example.com"}

\* the conversation state of a booking that has collected a name and an email
Collected(patient_name, patient_email) ==
    [EmptyState EXCEPT !.conversation_step = "email_collection",
                       !.patient_name = patient_name,
                       !.patient_email = patient_email]

\* one call of _find_or_create_patient
FindOrCreate ==
    /\ \E patient_name \in PatientNames, patient_email \in PatientEmails :
          /\ conversation_state' = Collected(patient_name, patient_email)
          /\ patients' = FindOrCreatePatient(patients, conversation_state').patients
    /\ UNCHANGED <<appointments, now, last, threads, reply, enumeration>>

NextPatients == FindOrCreate

SpecPatients == Init /\ [][NextPatients]_vars

\* a stored patient matches the name (case-insensitive first and last name)
\* or the email (case-insensitive)
MatchesPatient(patient, patient_name, patient_email) ==
    \/ BearsName(patient, patient_name)
    \/ Lower(patient.email) = Lower(patient_email)

\* C34: find-or-create patient. Whenever a stored patient matches by
\* case-insensitive first+last name or by email the call returns a stored
\* record (one that matches) and creates none; otherwise it appends exactly
\* one new patient, whose id no stored patient has. After any sequence of
\* calls made one at a time the patient ids of the store are pairwise
\* distinct.
C34_FindOrCreate ==
    /\ \A patient_name \in PatientNames, patient_email \in PatientEmails :
          LET r == FindOrCreatePatient(patients,
                                       Collected(patient_name, patient_email))
              matching == {i \in 1..Len(patients) :
                              MatchesPatient(patients[i], patient_name, patient_email)}
          IN IF matching # {}
             THEN /\ Len(r.patients) = Len(patients)
                  /\ \E i \in matching :
                        /\ r.patient.patient_id = patients[i].patient_id
                        /\ r.patients[i] = r.patient
                        /\ \A j \in 1..Len(patients) :
                              j # i => r.patients[j] = patients[j]
             ELSE /\ r.patients = Append(patients, r.patient)
                  /\ \A i \in 1..Len(patients) :
                        patients[i].patient_id # r.patient.patient_id
    /\ \A i \in 1..Len(patients), j \in 1..Len(patients) :
          i # j => patients[i].patient_id # patients[j].patient_id

\* three patients are stored, and the last call found one of them by its
\* email under another name
C34_Witness ==
    /\ Len(patients) = 3
    /\ conversation_state.patient_email # Absent
    /\ \E i \in 1..Len(patients) :
          /\ Lower(patients[i].email) = Lower(conversation_state.patient_email)
          /\ ~BearsName(patients[i], conversation_state.patient_name)

----------------------------------------------------------------------------
(* C35 *)

\* C35: the booking flow never moves backwards without a reset. Once the
\* step is datetime_preference, insurance_info or email_collection, no input
\* of any intent returns the step to name_requested or appointment_type, and
\* no input moves it from insurance_info or email_collection back to
\* datetime_preference.
C35_NeverBackwards ==
    StepOf(conversation_state) \in InformationalSteps
        => \A user_input \in Utterances :
              LET r == GenerateResponse(conversation_state, appointments, patients,
                                        now, user_input)
                  after == StepOf(r.conversation_state)
              IN /\ after \notin {"name_requested", "appointment_type"}
                 /\ StepOf(conversation_state) \in {"insurance_info", "email_collection"}
                       => after # "datetime_preference"

----------------------------------------------------------------------------
(* C36 *)

\* what a conversation state of the booking flow has collected, by its step
CollectedFor(cs) ==
    /\ StepOf(cs) \in {"appointment_type", "datetime_preference", "insurance_info",
                       "email_collection", "confirmation"}
          => cs.patient_name # Absent
    /\ StepOf(cs) \in {"insurance_info", "email_collection"}
          => /\ cs.specialty # Absent
             /\ cs.date_preference # Absent
             /\ cs.time_preference # Absent
    /\ StepOf(cs) = "email_collection" => cs.insurance_provider # Absent

\* C36: collected-field invariant. In every reachable conversation state a
\* step of appointment_type, datetime_preference, insurance_info,
\* email_collection or confirmation implies a stored patient name; a step of
\* insurance_info or email_collection implies a stored specialty, date
\* preference and time preference; the step email_collection implies a stored
\* insurance provider. The state every utterance leads to satisfies it as
\* well, so the booking step runs with name, specialty, date, time and
\* insurance collected.
C36_CollectedFields ==
    /\ CollectedFor(conversation_state)
    /\ \A user_input \in Utterances :
          CollectedFor(GenerateResponse(conversation_state, appointments, patients,
                                        now, user_input).conversation_state)

\* the booking step is about to run: everything but the email is collected
C36_Witness ==
    /\ StepOf(conversation_state) = "email_collection"
    /\ conversation_state.patient_name = "Jane Doe"
    /\ conversation_state.specialty = "cardiologist"
    /\ conversation_state.date_preference = "tomorrow"
    /\ conversation_state.time_preference = "9:00 AM"
    /\ conversation_state.insurance_provider = "Aetna"
    /\ conversation_state.patient_email = Absent

----------------------------------------------------------------------------
(* C37 *)

\* what a conversation state of the modification branch holds, by its step
HoldsTarget(cs) ==
    /\ StepOf(cs) \in SelectionSteps => Len(cs.appointments_to_modify) >= 2
    /\ StepOf(cs) = "reschedule_datetime"
          => cs.appointment_to_reschedule # NoAppointment

\* C37: modification-branch invariant. In every reachable conversation state
\* a step of select_appointment_cancel or select_appointment_reschedule
\* implies a stored candidate list of at least two appointments, and the step
\* reschedule_datetime implies a stored appointment to reschedule. The state
\* every utterance leads to satisfies it as well.
C37_ModificationTargets ==
    /\ HoldsTarget(conversation_state)
    /\ \A user_input \in Utterances :
          HoldsTarget(GenerateResponse(conversation_state, appointments, patients,
                                       now, user_input).conversation_state)

\* a candidate has been chosen from a list of two: the step is
\* reschedule_datetime, the target is stored and the list is still there
C37_Witness ==
    /\ StepOf(conversation_state) = "reschedule_datetime"
    /\ Len(conversation_state.appointments_to_modify) = 2
    /\ \E k \in 1..2 :
          conversation_state.appointment_to_reschedule
              = conversation_state.appointments_to_modify[k]

----------------------------------------------------------------------------
(* C38 *)

\* the Slot Engine called for neighbouring hours of one day, with the two
\* supported durations and a longer one
NeighbourDoctorInputs == {"DOC001", "DOC002"}
NeighbourDateInputs == {"2026-11-03"}
NeighbourTimeInputs == {"09:00", "10:00", "11:00"}
NeighbourDurations == {30, 60, 120}

\* CalendarManager.book_slot
BookNeighbour ==
    /\ now <= MaxNow
    /\ \E doctor_id \in NeighbourDoctorInputs, date_str \in NeighbourDateInputs,
          time_str \in NeighbourTimeInputs, patient_data \in PatientInputs,
          duration_minutes \in NeighbourDurations :
          Commit(BookSlot(appointments, now, doctor_id, date_str, time_str,
                          patient_data, duration_minutes))

\* CalendarManager.reschedule_appointment
RescheduleNeighbour ==
    /\ now <= MaxNow
    /\ \E i \in 1..Len(appointments), new_date \in NeighbourDateInputs,
          new_time \in NeighbourTimeInputs :
          Commit(RescheduleAppointment(appointments, now,
                                       appointments[i].appointment_id, new_date,
                                       new_time))

\* CalendarManager.cancel_appointment
CancelNeighbour ==
    /\ now <= MaxNow
    /\ \E i \in 1..Len(appointments) :
          Commit(CancelAppointment(appointments, now, appointments[i].appointment_id,
                                   ""))

NextNeighbours == BookNeighbour \/ RescheduleNeighbour \/ CancelNeighbour

SpecNeighbours == Init /\ [][NextNeighbours]_vars

\* the durations the facility supports
SupportedDurations == {30, 60}

\* the intervals [time, time + duration) of two appointments of one doctor and
\* date meet
Overlapping(a, b) ==
    /\ a.doctor_id = b.doctor_id
    /\ a.date = b.date
    /\ StartMinute(a.time) < StartMinute(b.time) + GetDuration(b)
    /\ StartMinute(b.time) < StartMinute(a.time) + GetDuration(a)

\* C38: with the two supported durations (30 and 60 minutes), after any
\* sequence of book, reschedule and cancel calls made one at a time, no two
\* non-cancelled appointments of the same doctor on the same date have
\* overlapping intervals [time, time + duration).
C38_NoOverlap ==
    (\A i \in 1..Len(appointments) :
        GetDuration(appointments[i]) \in SupportedDurations)
        => \A i, j \in 1..Len(appointments) :
              (i # j /\ Active(appointments[i]) /\ Active(appointments[j]))
                  => ~Overlapping(appointments[i], appointments[j])

\* a half-hour and an hour appointment of one doctor stand in neighbouring
\* hours, one of them put there by a reschedule
C38_Witness ==
    /\ last.op = "reschedule" /\ last.success
    /\ \E i, j \in 1..Len(appointments) :
          /\ appointments[i].appointment_id = last.appointment_id
          /\ Active(appointments[i]) /\ Active(appointments[j])
          /\ appointments[i].doctor_id = appointments[j].doctor_id
          /\ appointments[i].date = appointments[j].date
          /\ GetDuration(appointments[i]) = 30
          /\ GetDuration(appointments[j]) = 60
          /\ StartMinute(appointments[i].time)
                 = StartMinute(appointments[j].time) + 60

----------------------------------------------------------------------------
(* C39 *)

\* the time is a slot of a bookable date: the doctor's day offers it when no
\* appointment stands in the store
BookableSlot(doctor_id, date_str, time_str, duration_minutes) ==
    InSeq(time_str, GetAvailableSlots(<< >>, doctor_id, date_str, duration_minutes))

\* C39: a successful reschedule of an appointment from slot S to a different
\* slot T of the same doctor frees S and occupies T. Afterwards T is not
\* returned by availableSlots for the doctor and the new date, and S is
\* returned for the doctor and the old date when no other appointment holds S
\* and the old date is bookable.
C39_RescheduleMovesSlot ==
    \A appointment_id \in AptIdInputs(appointments), new_date \in DateInputs,
       new_time \in NeighbourTimeInputs :
        LET r == RescheduleAppointment(appointments, now, appointment_id, new_date,
                                       new_time)
            i == FindAppointment(appointments, appointment_id)
        IN (/\ r.success
            /\ <<appointments[i].date, appointments[i].time>> # <<new_date, new_time>>)
              => LET old == appointments[i]
                     duration_minutes == GetDuration(old)
                 IN /\ ~InSeq(new_time,
                              GetAvailableSlots(r.appointments, old.doctor_id, new_date,
                                                duration_minutes))
                    /\ (/\ \A j \in 1..Len(r.appointments) :
                              r.appointments[j].appointment_id # appointment_id
                                  => ~SameSlot(r.appointments[j], old)
                        /\ BookableSlot(old.doctor_id, old.date, old.time,
                                        duration_minutes))
                          => InSeq(old.time,
                                   GetAvailableSlots(r.appointments, old.doctor_id,
                                                     old.date, duration_minutes))

\* the appointment booked at 09:00 has just been moved to 10:00: 09:00 is
\* offered again and 10:00 is not
C39_Witness ==
    /\ last.op = "reschedule" /\ last.success
    /\ last.appointment.appointment_id = SeedStore[1].appointment_id
    /\ last.appointment.created_at = SeedStore[1].created_at
    /\ last.appointment.rescheduled_at = 2
    /\ last.time = "10:00"
    /\ InSeq("09:00", GetAvailableSlots(appointments, last.appointment.doctor_id,
                                        last.date, GetDuration(last.appointment)))
    /\ ~InSeq("10:00", GetAvailableSlots(appointments, last.appointment.doctor_id,
                                         last.date, GetDuration(last.appointment)))

----------------------------------------------------------------------------
(* C40 *)

\* SchedulerAgent.generate_response(user_input) on a data directory without
\* doctors.json: load_data answers [] for the missing file and
\* _find_available_doctor returns None.  The doctors are read for the
\* booking of the email_collection step only (the lookup reads them for the
\* wording of its reply): that step has stored the email and found or
\* created the patient when it asks for the doctor, books nothing, sets the
\* step to confirmation and apologises (lines 601-605).
TurnNoDoctors ==
    /\ now <= MaxNow
    /\ \E user_input \in DialogueInputs(conversation_state.conversation_step) :
          LET r == GenerateResponse(conversation_state, appointments, patients, now,
                                    user_input)
              unresolved == r.reply = "booked"
          IN /\ conversation_state' = r.conversation_state
             /\ appointments' = IF unresolved THEN appointments ELSE r.appointments
             /\ patients' = r.patients
             /\ reply' = IF unresolved THEN "no_doctor" ELSE r.reply
             /\ now' = IF r.ticked /\ ~unresolved THEN now + 1 ELSE now
    /\ UNCHANGED <<enumeration, last, threads>>

NextNoDoctors == TurnNoDoctors

SpecNoDoctors == Init /\ [][NextNoDoctors]_vars

\* C40: when the booking step of the dialogue fails because no doctor can be
\* resolved, nothing is written to the Record Store: that turn creates or
\* modifies no patient record and no appointment.
C40_NoDoctorWritesNothing ==
    [][reply' = "no_doctor"
         => /\ patients' = patients
            /\ appointments' = appointments]_vars

====
